---- MODULE Spec2Model ----
(***************************************************************************)
(* Model of the document reconciliation layer of the PDF summary app:     *)
(* the route handlers of app/api/files/route.ts,                          *)
(* app/api/summarize/route.ts and app/api/translate/route.ts running      *)
(* against the object store (blobs) and the metadata table (rows).  A     *)
(* JavaScript string is a sequence of one-character strings; an optional  *)
(* value is None or Some(v).                                              *)
(***************************************************************************)
EXTENDS Integers, Sequences, FiniteSets, TLC

\* ------------------------------------------------------------------ bounds
\* number of requests that may be started in one behaviour
MaxRequests == 3
\* the clock stops advancing at this value
MaxTime == 2
\* longest generated file name and longest generated tags text
MaxNameLen == 4
MaxTagLen == 4
\* the page sends requests and receives answers up to this time, in ticks
MaxClock == 1
\* number of times the user clicks a document's Select or Summarize
MaxClicks == 2

\* ------------------------------------------------------- optional values
None == <<>>
Some(v) == <<v>>
OrElse(o, d) == IF o = None THEN d ELSE o[1]

\* ---------------------------------------------------------------- strings
Str_uploads == <<"u", "p", "l", "o", "a", "d", "s">>
Str_pdf == <<".", "p", "d", "f">>
Str_document_pdf == <<"d", "o", "c", "u", "m", "e", "n", "t">> \o Str_pdf

LowerSeq == <<"a", "b", "c", "d", "e", "f", "g", "h", "i", "j", "k", "l", "m",
              "n", "o", "p", "q", "r", "s", "t", "u", "v", "w", "x", "y", "z">>
UpperSeq == <<"A", "B", "C", "D", "E", "F", "G", "H", "I", "J", "K", "L", "M",
              "N", "O", "P", "Q", "R", "S", "T", "U", "V", "W", "X", "Y", "Z">>
Digits == {"0", "1", "2", "3", "4", "5", "6", "7", "8", "9"}
Range(s) == {s[i] : i \in 1..Len(s)}

\* the characters matched by \s
IsSpace(c) == c \in {" ", "\t", "\n"}

\* String.prototype.toLowerCase on one character
ToLowerChar(c) ==
  IF \E i \in 1..Len(UpperSeq) : UpperSeq[i] = c
  THEN LowerSeq[CHOOSE i \in 1..Len(UpperSeq) : UpperSeq[i] = c]
  ELSE c

toLowerCase(s) == [i \in 1..Len(s) |-> ToLowerChar(s[i])]

endsWith(s, suffix) ==
  /\ Len(s) >= Len(suffix)
  /\ SubSeq(s, Len(s) - Len(suffix) + 1, Len(s)) = suffix

startsWith(s, prefix) ==
  /\ Len(s) >= Len(prefix)
  /\ SubSeq(s, 1, Len(prefix)) = prefix

RECURSIVE TrimStart(_)
TrimStart(s) ==
  IF s # <<>> /\ IsSpace(Head(s)) THEN TrimStart(Tail(s)) ELSE s

RECURSIVE TrimEnd(_)
TrimEnd(s) ==
  IF s # <<>> /\ IsSpace(s[Len(s)]) THEN TrimEnd(SubSeq(s, 1, Len(s) - 1)) ELSE s

\* String.prototype.trim
trim(s) == TrimEnd(TrimStart(s))

\* String.prototype.split on a one-character separator
RECURSIVE split(_, _)
split(s, sep) ==
  IF \E i \in 1..Len(s) : s[i] = sep
  THEN LET i == CHOOSE k \in 1..Len(s) :
                  s[k] = sep /\ \A j \in 1..(k - 1) : s[j] # sep
       IN <<SubSeq(s, 1, i - 1)>> \o split(SubSeq(s, i + 1, Len(s)), sep)
  ELSE <<s>>

\* Array.from(new Set(xs)): first occurrences, in order
RECURSIVE Unique(_)
Unique(xs) ==
  IF xs = <<>> THEN <<>>
  ELSE LET front == Unique(SubSeq(xs, 1, Len(xs) - 1))
           x == xs[Len(xs)]
       IN IF x \in Range(front) THEN front ELSE Append(front, x)

\* Array.prototype.filter(Boolean) on an array of strings
FilterNonEmpty(xs) == SelectSeq(xs, LAMBDA x : x # <<>>)

\* s.replace(/\s+/g, " ")
RECURSIVE CollapseSpaces(_)
CollapseSpaces(s) ==
  IF s = <<>> THEN <<>>
  ELSE IF IsSpace(Head(s))
       THEN <<" ">> \o CollapseSpaces(TrimStart(s))
       ELSE <<Head(s)>> \o CollapseSpaces(Tail(s))

\* ------------------------------------------- files/route.ts pure functions
SafeChars == Range(LowerSeq) \cup Range(UpperSeq) \cup Digits \cup {".", "_", "-"}

sanitizeFileName(name) ==
  [i \in 1..Len(name) |-> IF name[i] \in SafeChars THEN name[i] ELSE "_"]

\* variant: the extension is appended whatever the name ends with
normalizePdfName_AlwaysAppend(name) ==
  IF trim(name) = <<>> THEN <<"d", "o", "c", "u", "m", "e", "n", "t", ".", "p", "d", "f">>
  ELSE sanitizeFileName(trim(name)) \o <<".", "p", "d", "f">>

normalizePdfName(name) ==
  LET trimmed == trim(name)
      safeName == sanitizeFileName(trimmed)
  IN IF trimmed = <<>> THEN Str_document_pdf
     ELSE IF endsWith(toLowerCase(safeName), Str_pdf) THEN safeName
     ELSE safeName \o Str_pdf

\* rawTags is None (null) or Some(string)
parseTags(rawTags) ==
  IF rawTags = None \/ rawTags = Some(<<>>) THEN <<>>
  ELSE LET parts == split(rawTags[1], ",")
           trimmedParts == [i \in 1..Len(parts) |-> trim(parts[i])]
       IN Unique(FilterNonEmpty(trimmedParts))

\* item.replace(/^"|"$/g, "")
StripQuotes(item) ==
  LET a == IF item # <<>> /\ Head(item) = "\"" THEN Tail(item) ELSE item
  IN IF a # <<>> /\ a[Len(a)] = "\"" THEN SubSeq(a, 1, Len(a) - 1) ELSE a

\* the Array.isArray branch of normalizeTagValue
NormalizeTagArray(value) ==
  FilterNonEmpty([i \in 1..Len(value) |-> trim(StripQuotes(value[i]))])


\* JSON.parse of a string that starts with "[": None when it throws, else
\* Some(array) whose items are [str |-> TRUE, v |-> string] or
\* [str |-> FALSE] (a number).  Covers string literals without escapes and
\* unsigned integers, which is every array text the requests below send.
RECURSIVE JsonElems(_, _)
JsonElems(s, acc) ==
  LET s1 == TrimStart(s)
      isStr == s1 # <<>> /\ Head(s1) = "\""
      isNum == s1 # <<>> /\ Head(s1) \in Digits
      t == Tail(s1)
      close == IF isStr /\ \E k \in 1..Len(t) : t[k] = "\""
               THEN CHOOSE k \in 1..Len(t) :
                      t[k] = "\"" /\ \A j \in 1..(k - 1) : t[j] # "\""
               ELSE 0
      numEnd == IF isNum
                THEN CHOOSE k \in 1..Len(s1) :
                       /\ \A j \in 1..k : s1[j] \in Digits
                       /\ (k = Len(s1) \/ s1[k + 1] \notin Digits)
                ELSE 0
      content == SubSeq(t, 1, close - 1)
      item == IF isStr THEN [str |-> TRUE, v |-> content] ELSE [str |-> FALSE]
      rest == TrimStart(IF isStr THEN SubSeq(t, close + 1, Len(t))
                        ELSE SubSeq(s1, numEnd + 1, Len(s1)))
      bad == \/ ~isStr /\ ~isNum
             \/ isStr /\ close = 0
             \/ isStr /\ \E c \in Range(content) : c \in {"\\", "\n", "\t"}
             \/ isNum /\ numEnd > 1 /\ Head(s1) = "0"
  IN IF bad THEN None
     ELSE IF rest = <<"]">> THEN Some(Append(acc, item))
     ELSE IF rest # <<>> /\ Head(rest) = "," THEN JsonElems(Tail(rest), Append(acc, item))
     ELSE None

JsonParseArray(text) ==
  IF TrimStart(Tail(text)) = <<"]">> THEN Some(<<>>) ELSE JsonElems(Tail(text), <<>>)

\* value.filter(typeof item === "string").map(strip quotes, trim).filter(Boolean)
\* on an array of JSON items
NormalizeJsonArray(items) ==
  LET strs == SelectSeq(items, LAMBDA it : it.str)
  IN NormalizeTagArray([i \in 1..Len(strs) |-> strs[i].v])

\* value is [kind |-> "array", v |-> array of JSON items],
\* [kind |-> "string", v |-> string] or [kind |-> "other"] (null, undefined,
\* number, object)
normalizeTagValue(value) ==
  IF value.kind = "array" THEN NormalizeJsonArray(value.v)
  ELSE IF value.kind = "string" THEN
    LET trimmed == trim(value.v)
        bracketed == startsWith(trimmed, <<"[">>) /\ endsWith(trimmed, <<"]">>)
        braced == startsWith(trimmed, <<"{">>) /\ endsWith(trimmed, <<"}">>)
        jsonParsed == IF bracketed THEN JsonParseArray(trimmed) ELSE None
    IN IF trimmed = <<>> THEN <<>>
       ELSE IF bracketed /\ jsonParsed # None THEN NormalizeJsonArray(jsonParsed[1])
       ELSE parseTags(Some(trimmed))
  ELSE <<>>

\* the tag column of a row as the list query reads it: null or a text array
TagColumnValue(tag) ==
  IF tag = None THEN [kind |-> "other"]
  ELSE [kind |-> "array", v |-> [i \in 1..Len(tag[1]) |-> [str |-> TRUE, v |-> tag[1][i]]]]

\* `uploads/${name}`
UploadsPath(name) == Str_uploads \o <<"/">> \o name

\* path.split("/").pop()
Basename(path) == LET parts == split(path, "/") IN parts[Len(parts)]


\* ------------------------------------------------------- program constants
\* summarize/route.ts: const MAX_CHARS = 12000
MAX_CHARS == 12000
\* TTL passed to createSignedUrl
SignedUrlTtl == 60
\* limit of the storage listing
ListLimit == 200

\* ------------------------------------------------------------------ inputs
Reqs == {1, 2}

\* uploaded files: the name given by the browser and the text pdf-parse
\* extracts from the bytes
FileA == [name |-> <<"b", ".", "P", "D", "F">>, text |-> <<"x", " ", "\n", "y">>]
FileBlank == [name |-> <<"b", ".", "P", "D", "F">>, text |-> <<" ", "\n">>]

TagsAAB == <<"a", ",", " ", "a", ",", "\"", "b", "\"">>

PathA == UploadsPath(<<"a">> \o Str_pdf)
PathB == UploadsPath(<<"b", ".", "P", "D", "F">>)
Paths == {PathA, PathB}

\* multipart forms of POST /files: file, documentName and tags fields
UploadForms ==
  { [file |-> Some(FileA), documentName |-> Some(<<"a">>), tags |-> Some(TagsAAB)],
    [file |-> Some(FileBlank), documentName |-> Some(<<" ", "a">> \o Str_pdf), tags |-> None],
    [file |-> Some(FileA), documentName |-> Some(<<" ">>), tags |-> None],
    [file |-> None, documentName |-> None, tags |-> None] }

\* the path field of a JSON body: absent, or a string
PathInputs == {None, Some(PathA), Some(PathB)}

\* JSON bodies of POST /summarize and DELETE /files; valid is FALSE for a
\* body that is not JSON
JsonBodies == {[valid |-> FALSE]} \cup {[valid |-> TRUE, path |-> p] : p \in PathInputs}

\* chat completion content: absent, blank, or text
Completions == {None, Some(<<" ">>), Some(<<"s", " ">>), Some(<<"t">>)}

\* JSON bodies of PATCH /files; a field that is absent is None (tag: TagOther)
TagOther == [kind |-> "other"]
TagJsonText == [kind |-> "string", v |-> <<"[", "\"", "c", "\"", "]">>]
TagListDup == [kind |-> "array", v |-> <<[str |-> TRUE, v |-> <<"c">>],
                                        [str |-> TRUE, v |-> <<"c">>]>>]
NoteM == <<"m">>
PatchBodies ==
  { [valid |-> FALSE],
    [valid |-> TRUE, path |-> None, documentName |-> Some(<<"n">>), tag |-> TagOther,
     note_taking |-> None],
    [valid |-> TRUE, path |-> Some(PathA), documentName |-> None, tag |-> TagOther,
     note_taking |-> Some(NoteM)],
    [valid |-> TRUE, path |-> Some(PathA), documentName |-> Some(<<" ">>), tag |-> TagOther,
     note_taking |-> None],
    [valid |-> TRUE, path |-> Some(PathA), documentName |-> Some(<<" ", "n">>),
     tag |-> TagJsonText, note_taking |-> None],
    [valid |-> TRUE, path |-> Some(PathA), documentName |-> Some(<<"n">>),
     tag |-> TagListDup, note_taking |-> None],
    [valid |-> TRUE, path |-> Some(PathA), documentName |-> Some(<<"n">>), tag |-> TagOther,
     note_taking |-> None],
    [valid |-> TRUE, path |-> Some(PathB), documentName |-> Some(<<"n">>), tag |-> TagOther,
     note_taking |-> None] }

\* the download query parameter of GET /files
Queries == {[download |-> None], [download |-> Some(PathA)]}

\* ------------------------------------------------------------------- state
VARIABLES
  env,      \* GITHUB_TOKEN / Supabase credentials present
  blobs,    \* object store: path -> [file, created_at]
  rows,     \* metadata table: set of rows, each with its own id
  nextId,   \* id sequence of the metadata table
  now,      \* wall clock
  req,      \* the request each handler invocation is serving, and its position
  last,     \* one client: the request whose response it received most recently
  started,  \* number of requests started
  clients,  \* number of requests the clients keep in flight at once
  probe,    \* a function of route.ts under evaluation: its input and results
  ui        \* the state of the page component Home and its pending work

vars == <<env, blobs, rows, nextId, now, req, last, started, clients, probe, ui>>

\* a handler invocation: the operation, the await it is suspended at, the
\* request it received, its local variables, the external calls it has made,
\* and its response
Nothing == [nothing |-> TRUE]
NoProbe == [fn |-> "none", in |-> Nothing, outs |-> <<>>]
\* no page is open
NoUi == [open |-> FALSE]
IdleReq == [op |-> "idle", pc |-> "idle", input |-> Nothing, loc |-> Nothing,
            calls |-> <<>>, resp |-> None]
NoRequest == [op |-> "none", ok |-> FALSE, path |-> None, tags |-> None]

\* NextResponse.json(body, {status})
Json(status, body) == [status |-> status, json |-> TRUE, body |-> body]
Fail(status, error) == Json(status, [ok |-> FALSE, error |-> error])
\* an exception that leaves the handler: the framework answers 500, no JSON
Thrown == [status |-> 500, json |-> FALSE]

IsOk(resp) == resp # None /\ resp[1].json /\ resp[1].body.ok

\* ------------------------------------------------------------ object store
StorageUnavailable == "storage unavailable"
AlreadyExists == "The resource already exists"
ObjectNotFound == "Object not found"
DatabaseError == "database error"

\* variant: the upload replaces an existing object (upsert: true)
StorageUpload_Upsert(bs, path, file, t) ==
  { [error |-> None,
     blobs |-> [p \in DOMAIN bs \cup {path} |->
                  IF p = path THEN [file |-> file, created_at |-> t] ELSE bs[p]]],
    [error |-> Some("storage unavailable"), blobs |-> bs] }

\* storage.from(bucket).upload(path, file, {upsert: false}) at time t
StorageUpload(bs, path, file, t) ==
  IF path \in DOMAIN bs
  THEN { [error |-> Some(AlreadyExists), blobs |-> bs],
         [error |-> Some(StorageUnavailable), blobs |-> bs] }
  ELSE { [error |-> None,
          blobs |-> [p \in DOMAIN bs \cup {path} |->
                       IF p = path THEN [file |-> file, created_at |-> t] ELSE bs[p]]],
         [error |-> Some(StorageUnavailable), blobs |-> bs] }

\* variant: the removal empties the folder
StorageRemove_All(bs, path) ==
  { [error |-> None, blobs |-> <<>>],
    [error |-> Some("storage unavailable"), blobs |-> bs] }

\* storage.from(bucket).remove([path]); removing a missing object is no error
StorageRemove(bs, path) ==
  { [error |-> None, blobs |-> [p \in DOMAIN bs \ {path} |-> bs[p]]],
    [error |-> Some(StorageUnavailable), blobs |-> bs] }

\* storage.from(bucket).createSignedUrl(path, ttl)
CreateSignedUrl(bs, path, ttl) ==
  IF path \in DOMAIN bs
  THEN { [error |-> None, data |-> Some([path |-> path, ttl |-> ttl])],
         [error |-> Some(StorageUnavailable), data |-> None] }
  ELSE { [error |-> Some(ObjectNotFound), data |-> None],
         [error |-> Some(StorageUnavailable), data |-> None] }

\* fetch(signedUrl) and the read of its body: the bytes, a non-2xx answer, or
\* an exception
FetchSigned(bs, url) ==
  (IF url.path \in DOMAIN bs
   THEN { [thrown |-> FALSE, ok |-> TRUE, file |-> Some(bs[url.path].file)] }
   ELSE {})
  \cup { [thrown |-> FALSE, ok |-> FALSE, file |-> None],
         [thrown |-> TRUE, ok |-> FALSE, file |-> None] }

\* the objects directly under the folder uploads/
ListedNames(bs) ==
  { SubSeq(p, Len(Str_uploads) + 2, Len(p)) :
      p \in { q \in DOMAIN bs :
                /\ startsWith(q, Str_uploads \o <<"/">>)
                /\ "/" \notin Range(SubSeq(q, Len(Str_uploads) + 2, Len(q))) } }

\* all orderings of a finite set
Orderings(S) ==
  { s \in [1..Cardinality(S) -> S] : \A i, j \in 1..Cardinality(S) : i # j => s[i] # s[j] }

\* storage.from(bucket).list("uploads", {limit, sortBy: created_at desc});
\* the order of objects created at the same time is the store's choice
StorageList(bs, limit) ==
  { [error |-> None,
     data |-> [i \in 1..(IF Len(s) < limit THEN Len(s) ELSE limit) |->
                 [name |-> s[i], created_at |-> bs[UploadsPath(s[i])].created_at]]] :
      s \in { o \in Orderings(ListedNames(bs)) :
                \A i, j \in 1..Len(o) :
                  i < j => bs[UploadsPath(o[i])].created_at >= bs[UploadsPath(o[j])].created_at } }
  \cup { [error |-> Some(StorageUnavailable), data |-> <<>>] }

\* ---------------------------------------------------------- metadata table
RowsAt(rs, path) == { d \in rs : d.storage_path = path }

NewRow(id, fields) ==
  [id |-> id,
   document_name |-> fields.document_name,
   storage_path |-> fields.storage_path,
   tag |-> IF "tag" \in DOMAIN fields THEN Some(fields.tag) ELSE None,
   summary_text |-> IF "summary_text" \in DOMAIN fields
                    THEN Some(fields.summary_text) ELSE None,
   summary_updated_at |-> IF "summary_updated_at" \in DOMAIN fields
                          THEN Some(fields.summary_updated_at) ELSE None,
   note_taking |-> None]

\* from(table).insert(fields): the table declares no constraint in this
\* repository, so an insert adds a row whatever rows exist
DbInsert(rs, id, fields) ==
  { [error |-> None, rows |-> rs \cup {NewRow(id, fields)}, id |-> Some(id)],
    [error |-> Some(DatabaseError), rows |-> rs, id |-> None] }

\* variant: a summary that is already stored is kept
UpdateSummary_KeepFirst(d, summary, ts) ==
  IF d.summary_text = <<>>
  THEN [d EXCEPT !.summary_text = <<summary>>, !.summary_updated_at = <<ts>>]
  ELSE d

\* variant: the update writes the text only
UpdateSummary_TextOnly(d, summary, ts) == [d EXCEPT !.summary_text = <<summary>>]

\* from(table).update({summary_text, summary_updated_at}).eq("storage_path", path)
UpdateSummary(d, summary, ts) ==
  [d EXCEPT !.summary_text = Some(summary), !.summary_updated_at = Some(ts)]

\* variant: the update also resets the summary columns
UpdateNameTag_ClearsSummary(d, name, tag) ==
  [d EXCEPT !.document_name = name, !.tag = Some(tag),
            !.summary_text = <<>>, !.summary_updated_at = <<>>]

\* variant: an empty tag list leaves the tag column as it is
UpdateNameTag_KeepTagIfEmpty(d, name, tag) ==
  [d EXCEPT !.document_name = name, !.tag = IF tag = <<>> THEN @ ELSE Some(tag)]

\* from(table).update({document_name, tag}).eq("storage_path", path)
UpdateNameTag(d, name, tag) ==
  [d EXCEPT !.document_name = name, !.tag = Some(tag)]

\* from(table).update(...).eq("storage_path", path).select("id"); change[d]
\* is row d with the new column values
DbUpdate(rs, path, change) ==
  { [error |-> None,
     rows |-> { IF d.storage_path = path THEN change[d] ELSE d : d \in rs },
     updated |-> { d.id : d \in RowsAt(rs, path) }],
    [error |-> Some(DatabaseError), rows |-> rs, updated |-> {}] }

\* variant: the delete matches no row
DbDelete_MatchesNothing(rs, path) ==
  { [error |-> None, rows |-> rs],
    [error |-> Some("database error"), rows |-> rs] }

\* from(table).delete().eq("storage_path", path)
DbDelete(rs, path) ==
  { [error |-> None, rows |-> rs \ RowsAt(rs, path)],
    [error |-> Some(DatabaseError), rows |-> rs] }

\* from(table).select(...).in("storage_path", paths): the matching rows in
\* an order the query does not fix
DbSelectIn(rs, paths) ==
  { [error |-> None, data |-> s] :
      s \in Orderings({ d \in rs : d.storage_path \in paths }) }
  \cup { [error |-> Some(DatabaseError), data |-> <<>>] }


\* ---------------------------------------------------------------- requests
\* reading the clock: time does not go back
ClockReads == {now, IF now < MaxTime THEN now + 1 ELSE now}

\* A response is delivered before another handler resumes or starts
\* (delivery touches no store), and of two idle handler slots the first takes
\* the next request.
NoneDone == \A r \in Reqs : req[r].pc # "done"
FirstIdle(r) == \A q \in Reqs : q < r => req[q].op # "idle"
InFlight == {r \in Reqs : req[r].op # "idle"}

Begin(r) ==
  /\ req[r].op = "idle"
  /\ NoneDone
  /\ FirstIdle(r)
  /\ Cardinality(InFlight) < clients
  /\ started < MaxRequests
  /\ started' = started + 1
  /\ UNCHANGED clients

NewReq(op) == [IdleReq EXCEPT !.op = op]
At(rq, pc, loc) == [rq EXCEPT !.pc = pc, !.loc = loc]
Done(rq, resp) == [rq EXCEPT !.pc = "done", !.resp = Some(resp)]
Called(rq, call) == [rq EXCEPT !.calls = Append(@, call)]
Running(r, op, pc) == req[r].op = op /\ req[r].pc = pc /\ NoneDone
Set(r, rq) == req' = [req EXCEPT ![r] = rq]
Received(rq, input) == [rq EXCEPT !.input = input]

\* ------------------------------------------------ summarize/route.ts POST
\* variant: the body is read before the token is checked
SummarizeEntry_BodyFirst(body) ==
  IF ~body.valid THEN Done([IdleReq EXCEPT !.op = "summarize"], [status |-> 500, json |-> FALSE])
  ELSE Done([IdleReq EXCEPT !.op = "summarize"],
            [status |-> 500, json |-> TRUE,
             body |-> [ok |-> FALSE, error |-> "Missing GITHUB_TOKEN."]])

\* lines 13-34: token check, body, path validation, client construction
SummarizeEntry(body) ==
  LET rq == NewReq("summarize")
  IN IF ~env.token THEN Done(rq, Fail(500, "Missing GITHUB_TOKEN."))
     ELSE IF ~body.valid THEN Done(rq, Thrown)
     ELSE IF body.path = None \/ body.path = Some(<<>>)
       THEN Done(rq, Fail(400, "Missing file path."))
     ELSE IF ~env.supabase THEN Done(rq, Thrown)
     ELSE At(rq, "signed", [path |-> body.path[1]])

SummarizeStart(r) ==
  /\ Begin(r)
  /\ \E body \in JsonBodies : Set(r, Received(SummarizeEntry(body), body))
  /\ UNCHANGED <<env, probe, ui, blobs, rows, nextId, now, last>>

\* lines 36-45
SummarizeSigned(rq, out) ==
  IF out.error # None \/ out.data = None
  THEN Done(rq, Fail(500, OrElse(out.error, "Failed to access file.")))
  ELSE At(rq, "download", [path |-> rq.loc.path, signed |-> out.data[1]])

SummarizeSignedUrl(r) ==
  /\ Running(r, "summarize", "signed")
  /\ \E out \in CreateSignedUrl(blobs, req[r].loc.path, SignedUrlTtl) :
       Set(r, SummarizeSigned(Called(req[r], "createSignedUrl"), out))
  /\ UNCHANGED <<env, probe, ui, blobs, rows, nextId, now, last, started, clients>>

\* variant: the extracted text is used as it is
ExtractText_Raw(fileText) == fileText

\* pdfData.text.replace(/\s+/g, " ").trim()
ExtractText(fileText) == trim(CollapseSpaces(fileText))

\* text.length > MAX_CHARS ? text.slice(0, MAX_CHARS) : text
Prompt(text) == IF Len(text) > MAX_CHARS THEN SubSeq(text, 1, MAX_CHARS) ELSE text

\* lines 47-66
SummarizeFetched(rq, out) ==
  IF out.thrown THEN Done(rq, Thrown)
  ELSE IF ~out.ok THEN Done(rq, Fail(500, "Failed to download PDF."))
  ELSE IF ExtractText(out.file[1].text) = <<>>
    THEN Done(rq, Fail(422, "No text could be extracted from the PDF."))
  ELSE At(rq, "ai", [path |-> rq.loc.path,
                     prompt |-> Prompt(ExtractText(out.file[1].text))])

SummarizeDownload(r) ==
  /\ Running(r, "summarize", "download")
  /\ \E out \in FetchSigned(blobs, req[r].loc.signed) :
       Set(r, SummarizeFetched(Called(req[r], "fetch"), out))
  /\ UNCHANGED <<env, probe, ui, blobs, rows, nextId, now, last, started, clients>>

\* the chat-completion call: an exception, a non-2xx answer, or a completion
AiOutcomes ==
  { [thrown |-> TRUE, ok |-> FALSE, content |-> None],
    [thrown |-> FALSE, ok |-> FALSE, content |-> None] }
  \cup { [thrown |-> FALSE, ok |-> TRUE, content |-> c] : c \in Completions }

\* variant: the completion is not trimmed before the check
HasSummary_Untrimmed(content) == content # None /\ content[1] # <<>>

\* aiData?.choices?.[0]?.message?.content?.trim() is an accepted summary
HasSummary(content) == content # None /\ trim(content[1]) # <<>>

\* variant: the AI call is made again when it failed or returned nothing
SummarizeAnswered_Retry(rq, out, t) ==
  IF out.thrown \/ ~out.ok \/ out.content = <<>> THEN rq
  ELSE [rq EXCEPT !.pc = "update",
                  !.loc = [path |-> rq.loc.path, summary |-> out.content[1],
                           summaryTimestamp |-> t]]

\* lines 68-117; t is the clock value read for summaryTimestamp
SummarizeAnswered(rq, out, t) ==
  IF out.thrown THEN Done(rq, Thrown)
  ELSE IF ~out.ok THEN Done(rq, Fail(500, "AI request failed"))
  ELSE IF ~HasSummary(out.content)
    THEN Done(rq, Fail(500, "No summary returned from the AI."))
  ELSE At(rq, "update", [path |-> rq.loc.path, summary |-> trim(out.content[1]),
                         summaryTimestamp |-> t])

SummarizeAi(r) ==
  /\ Running(r, "summarize", "ai")
  /\ \E out \in AiOutcomes, t \in ClockReads :
       /\ Set(r, SummarizeAnswered(Called(req[r], "ai"), out, t))
       /\ now' = IF req'[r].pc = "update" THEN t ELSE now
  /\ UNCHANGED <<env, probe, ui, blobs, rows, nextId, last, started, clients>>

\* variant: the insert follows every update
NoRowUpdated_Always(updated) == TRUE

\* line 134: the insert is needed when the update returned no row
NoRowUpdated(updated) == updated = {}

\* lines 118-134
SummarizeUpdated(rq, out) ==
  IF out.error # None THEN Done(rq, Fail(500, out.error[1]))
  ELSE IF NoRowUpdated(out.updated) THEN [rq EXCEPT !.pc = "insert"]
  ELSE Done(rq, Json(200, [ok |-> TRUE, summary |-> rq.loc.summary]))

SummarizeUpdate(r) ==
  /\ Running(r, "summarize", "update")
  /\ LET change == [d \in rows |->
                       UpdateSummary(d, req[r].loc.summary, req[r].loc.summaryTimestamp)]
     IN \E out \in DbUpdate(rows, req[r].loc.path, change) :
          /\ rows' = out.rows
          /\ Set(r, SummarizeUpdated(Called(req[r], "update"), out))
  /\ UNCHANGED <<env, probe, ui, blobs, nextId, now, last, started, clients>>

\* lines 135-143
SummaryRow(loc) ==
  [document_name |-> Basename(loc.path), storage_path |-> loc.path,
   summary_text |-> loc.summary, summary_updated_at |-> loc.summaryTimestamp]

\* lines 145-153
SummarizeInserted(rq, out) ==
  IF out.error # None THEN Done(rq, Fail(500, out.error[1]))
  ELSE Done(rq, Json(200, [ok |-> TRUE, summary |-> rq.loc.summary]))

SummarizeInsert(r) ==
  /\ Running(r, "summarize", "insert")
  /\ \E out \in DbInsert(rows, nextId, SummaryRow(req[r].loc)) :
       /\ rows' = out.rows
       /\ nextId' = IF out.error = None THEN nextId + 1 ELSE nextId
       /\ Set(r, SummarizeInserted(Called(req[r], "insert"), out))
  /\ UNCHANGED <<env, probe, ui, blobs, now, last, started, clients>>


\* ------------------------------------------------------ files/route.ts GET
\* lines 67-73
GetEntry(query) ==
  LET rq == NewReq("get")
  IN IF ~env.supabase THEN Done(rq, Thrown)
     ELSE IF query.download # None /\ query.download # Some(<<>>)
       THEN At(rq, "link", [path |-> query.download[1]])
     ELSE At(rq, "list", Nothing)

GetStart(r) ==
  /\ Begin(r)
  /\ \E query \in Queries : Set(r, Received(GetEntry(query), query))
  /\ UNCHANGED <<env, probe, ui, blobs, rows, nextId, now, last>>

\* lines 74-85
GetLinked(rq, out) ==
  IF out.error # None \/ out.data = None
  THEN Done(rq, Fail(500, OrElse(out.error, "Failed to create signed URL.")))
  ELSE Done(rq, Json(200, [ok |-> TRUE, url |-> out.data[1]]))

\* variant: the link lasts as long as the page keeps it
GetSignedUrl_PageTtl(r) ==
  /\ Running(r, "get", "link")
  /\ \E out \in CreateSignedUrl(blobs, req[r].loc.path, 900) :
       Set(r, GetLinked(Called(req[r], "createSignedUrl"), out))
  /\ UNCHANGED <<env, probe, ui, blobs, rows, nextId, now, last, started, clients>>

GetSignedUrl(r) ==
  /\ Running(r, "get", "link")
  /\ \E out \in CreateSignedUrl(blobs, req[r].loc.path, SignedUrlTtl) :
       Set(r, GetLinked(Called(req[r], "createSignedUrl"), out))
  /\ UNCHANGED <<env, probe, ui, blobs, rows, nextId, now, last, started, clients>>

\* lines 125-135: new Map(documents.map(doc => [doc.storage_path, {...}]));
\* a later document replaces an earlier one with the same path
DocumentsByPath(documents) ==
  [p \in {documents[i].storage_path : i \in 1..Len(documents)} |->
     LET k == CHOOSE i \in 1..Len(documents) :
                /\ documents[i].storage_path = p
                /\ \A j \in (i + 1)..Len(documents) : documents[j].storage_path # p
         doc == documents[k]
     IN [document_name |-> doc.document_name,
         tag |-> normalizeTagValue(TagColumnValue(doc.tag)),
         summary_text |-> doc.summary_text,
         summary_updated_at |-> doc.summary_updated_at]]

\* variant: the summary of the row is not shown
ListItem_NoSummary(item, byPath) ==
  LET path == Str_uploads \o <<"/">> \o item.name
      found == path \in DOMAIN byPath
  IN [name |-> IF found THEN byPath[path].document_name ELSE item.name,
      path |-> path,
      created_at |-> item.created_at,
      tag |-> IF found THEN byPath[path].tag ELSE <<>>,
      summary |-> None,
      summary_updated_at |-> IF found THEN byPath[path].summary_updated_at ELSE None]

\* lines 138-149
ListItem(item, byPath) ==
  LET path == UploadsPath(item.name)
      found == path \in DOMAIN byPath
  IN [name |-> IF found THEN byPath[path].document_name ELSE item.name,
      path |-> path,
      created_at |-> item.created_at,
      tag |-> IF found THEN byPath[path].tag ELSE <<>>,
      summary |-> IF found THEN byPath[path].summary_text ELSE None,
      summary_updated_at |-> IF found THEN byPath[path].summary_updated_at ELSE None]

\* variant: one entry per metadata row
ListItems_PerDocument(data, documents) ==
  [i \in 1..Len(documents) |->
     [name |-> documents[i].document_name,
      path |-> documents[i].storage_path,
      created_at |-> 0,
      tag |-> normalizeTagValue(TagColumnValue(documents[i].tag)),
      summary |-> documents[i].summary_text,
      summary_updated_at |-> documents[i].summary_updated_at]]

ListItems(data, documents) ==
  [i \in 1..Len(data) |-> ListItem(data[i], DocumentsByPath(documents))]

\* lines 88-112: the storage listing; with no blob the query is skipped
GetListed(rq, out) ==
  IF out.error # None THEN Done(rq, Fail(500, out.error[1]))
  ELSE IF Len(out.data) > 0 THEN At(rq, "select", [data |-> out.data])
  ELSE Done(At(rq, "done", [data |-> out.data, documents |-> <<>>]),
            Json(200, [ok |-> TRUE, items |-> ListItems(out.data, <<>>)]))

GetList(r) ==
  /\ Running(r, "get", "list")
  /\ \E out \in StorageList(blobs, ListLimit) :
       Set(r, GetListed(Called(req[r], "list"), out))
  /\ UNCHANGED <<env, probe, ui, blobs, rows, nextId, now, last, started, clients>>

\* lines 113-151
GetSelected(rq, out) ==
  IF out.error # None THEN Done(rq, Fail(500, out.error[1]))
  ELSE Done(At(rq, "done", [data |-> rq.loc.data, documents |-> out.data]),
            Json(200, [ok |-> TRUE, items |-> ListItems(rq.loc.data, out.data)]))

GetSelect(r) ==
  /\ Running(r, "get", "select")
  /\ \E out \in DbSelectIn(rows, {UploadsPath(req[r].loc.data[i].name) :
                                   i \in 1..Len(req[r].loc.data)}) :
       Set(r, GetSelected(Called(req[r], "select"), out))
  /\ UNCHANGED <<env, probe, ui, blobs, rows, nextId, now, last, started, clients>>

\* ----------------------------------------------------- files/route.ts POST
\* lines 170-173
DesiredName(form) ==
  IF form.documentName # None /\ trim(form.documentName[1]) # <<>>
  THEN form.documentName[1]
  ELSE IF form.file[1].name # <<>> THEN form.file[1].name ELSE Str_document_pdf

\* lines 154-176
UploadEntry(form) ==
  LET rq == NewReq("upload")
      finalName == normalizePdfName(DesiredName(form))
  IN IF ~env.supabase THEN Done(rq, Thrown)
     ELSE IF form.file = None THEN Done(rq, Fail(400, "Missing file upload."))
     ELSE At(rq, "store", [finalName |-> finalName, path |-> UploadsPath(finalName),
                           tag |-> parseTags(form.tags), file |-> form.file[1],
                           tags |-> form.tags])

UploadStart(r) ==
  /\ Begin(r)
  /\ \E form \in UploadForms : Set(r, Received(UploadEntry(form), form))
  /\ UNCHANGED <<env, probe, ui, blobs, rows, nextId, now, last>>

\* lines 178-190
UploadStored(rq, out) ==
  IF out.error # None THEN Done(rq, Fail(500, out.error[1]))
  ELSE [rq EXCEPT !.pc = "insert"]

UploadStore(r) ==
  /\ Running(r, "upload", "store")
  /\ \E t \in ClockReads :
       \E out \in StorageUpload(blobs, req[r].loc.path, req[r].loc.file, t) :
         /\ blobs' = out.blobs
         /\ now' = IF out.error = None THEN t ELSE now
         /\ Set(r, UploadStored(Called(req[r], "upload"), out))
  /\ UNCHANGED <<env, probe, ui, rows, nextId, last, started, clients>>

\* variant: the row is inserted without the tags
UploadRow_NoTag(loc) ==
  [document_name |-> loc.finalName, storage_path |-> loc.path, tag |-> <<>>]

\* lines 192-200
UploadRow(loc) ==
  [document_name |-> loc.finalName, storage_path |-> loc.path, tag |-> loc.tag]

\* lines 202-213
UploadInserted(rq, out) ==
  IF out.error # None THEN Done(rq, Fail(500, out.error[1]))
  ELSE Done(rq, Json(200, [ok |-> TRUE, path |-> rq.loc.path, documentId |-> out.id]))

UploadInsert(r) ==
  /\ Running(r, "upload", "insert")
  /\ \E out \in DbInsert(rows, nextId, UploadRow(req[r].loc)) :
       /\ rows' = out.rows
       /\ nextId' = IF out.error = None THEN nextId + 1 ELSE nextId
       /\ Set(r, UploadInserted(Called(req[r], "insert"), out))
  /\ UNCHANGED <<env, probe, ui, blobs, now, last, started, clients>>

\* --------------------------------------------------- files/route.ts DELETE
\* lines 216-228
DeleteEntry(body) ==
  LET rq == NewReq("delete")
  IN IF ~env.supabase THEN Done(rq, Thrown)
     ELSE IF ~body.valid THEN Done(rq, Thrown)
     ELSE IF body.path = None \/ body.path = Some(<<>>)
       THEN Done(rq, Fail(400, "Missing file path."))
     ELSE At(rq, "remove", [path |-> body.path[1]])

DeleteStart(r) ==
  /\ Begin(r)
  /\ \E body \in JsonBodies : Set(r, Received(DeleteEntry(body), body))
  /\ UNCHANGED <<env, probe, ui, blobs, rows, nextId, now, last>>

\* variant: the metadata delete follows a failed removal too
DeleteRemoved_Continue(rq, out) == [rq EXCEPT !.pc = "rows"]

\* lines 230-237
DeleteRemoved(rq, out) ==
  IF out.error # None THEN Done(rq, Fail(500, out.error[1]))
  ELSE [rq EXCEPT !.pc = "rows"]

DeleteRemove(r) ==
  /\ Running(r, "delete", "remove")
  /\ \E out \in StorageRemove(blobs, req[r].loc.path) :
       /\ blobs' = out.blobs
       /\ Set(r, DeleteRemoved(Called(req[r], "remove"), out))
  /\ UNCHANGED <<env, probe, ui, rows, nextId, now, last, started, clients>>

\* lines 239-251
DeleteDone(rq, out) ==
  IF out.error # None THEN Done(rq, Fail(500, out.error[1]))
  ELSE Done(rq, Json(200, [ok |-> TRUE]))

DeleteRows(r) ==
  /\ Running(r, "delete", "rows")
  /\ \E out \in DbDelete(rows, req[r].loc.path) :
       /\ rows' = out.rows
       /\ Set(r, DeleteDone(Called(req[r], "delete"), out))
  /\ UNCHANGED <<env, probe, ui, blobs, nextId, now, last, started, clients>>

\* ---------------------------------------------------- files/route.ts PATCH
\* lines 254-276
PatchEntry(body) ==
  LET rq == NewReq("patch")
  IN IF ~env.supabase THEN Done(rq, Thrown)
     ELSE IF ~body.valid THEN Done(rq, Thrown)
     ELSE IF body.path = None \/ body.path = Some(<<>>)
       THEN Done(rq, Fail(400, "Missing file path."))
     ELSE IF body.documentName = None \/ trim(body.documentName[1]) = <<>>
       THEN Done(rq, Fail(400, "Missing document name."))
     ELSE At(rq, "update", [path |-> body.path[1],
                            documentName |-> trim(body.documentName[1]),
                            tag |-> normalizeTagValue(body.tag)])

PatchStart(r) ==
  /\ Begin(r)
  /\ \E body \in PatchBodies : Set(r, Received(PatchEntry(body), body))
  /\ UNCHANGED <<env, probe, ui, blobs, rows, nextId, now, last>>

\* lines 278-293
PatchUpdated(rq, out) ==
  IF out.error # None THEN Done(rq, Fail(500, out.error[1]))
  ELSE Done(rq, Json(200, [ok |-> TRUE]))

PatchUpdate(r) ==
  /\ Running(r, "patch", "update")
  /\ LET change == [d \in rows |->
                       UpdateNameTag(d, req[r].loc.documentName, req[r].loc.tag)]
     IN \E out \in DbUpdate(rows, req[r].loc.path, change) :
          /\ rows' = out.rows
          /\ Set(r, PatchUpdated(Called(req[r], "update"), out))
  /\ UNCHANGED <<env, probe, ui, blobs, nextId, now, last, started, clients>>

\* ------------------------------------------------ translate/route.ts POST
\* translate/route.ts: const MAX_CHARS = 6000
TRANSLATE_MAX_CHARS == 6000

\* the index of the quote that closes the string literal opening at s[1], 0
\* when there is none
StringEnd(s) ==
  IF \E k \in 2..Len(s) : s[k] = "\""
  THEN CHOOSE k \in 2..Len(s) : s[k] = "\"" /\ \A j \in 2..(k - 1) : s[j] # "\""
  ELSE 0

\* the characters of a string literal the parser covers: no escape, no
\* control character
PlainChars(s) == \A i \in 1..Len(s) : s[i] \notin {"\\", "\n", "\t"}

\* the index of the last digit of the number opening at s[1]
NumberEnd(s) ==
  CHOOSE k \in 1..Len(s) :
    /\ \A j \in 1..k : s[j] \in Digits
    /\ (k = Len(s) \/ s[k + 1] \notin Digits)

\* the members of a JSON object after "{": None when JSON.parse throws, else
\* Some(keys in order).  A member is "key": value with value a string literal
\* or an unsigned integer.
RECURSIVE JsonMembers(_, _)
JsonMembers(s, acc) ==
  LET s1 == TrimStart(s)
      keyEnd == IF s1 # <<>> /\ Head(s1) = "\"" THEN StringEnd(s1) ELSE 0
      key == SubSeq(s1, 2, keyEnd - 1)
      s2 == TrimStart(SubSeq(s1, keyEnd + 1, Len(s1)))
      s3 == IF s2 # <<>> /\ Head(s2) = ":" THEN TrimStart(Tail(s2)) ELSE <<>>
      isStr == s3 # <<>> /\ Head(s3) = "\""
      isNum == s3 # <<>> /\ Head(s3) \in Digits
      valEnd == IF isStr THEN StringEnd(s3) ELSE IF isNum THEN NumberEnd(s3) ELSE 0
      bad == \/ keyEnd = 0 \/ valEnd = 0
             \/ ~PlainChars(key)
             \/ isStr /\ ~PlainChars(SubSeq(s3, 2, valEnd - 1))
             \/ isNum /\ valEnd > 1 /\ Head(s3) = "0"
      rest == TrimStart(SubSeq(s3, valEnd + 1, Len(s3)))
  IN IF bad THEN None
     ELSE IF rest = <<"}">> THEN Some(Append(acc, key))
     ELSE IF rest # <<>> /\ Head(rest) = "," THEN JsonMembers(Tail(rest), Append(acc, key))
     ELSE None

\* JSON.parse(content): None when it throws, else Some(value) with
\* value.falsy the result of !value and value.keys the length of
\* Object.keys(value)
JsonParse(content) ==
  LET s == trim(content)
      allDigits == s # <<>> /\ \A i \in 1..Len(s) : s[i] \in Digits
      elems == JsonParseArray(s)
      members == IF TrimStart(Tail(s)) = <<"}">> THEN Some(<<>>)
                 ELSE JsonMembers(Tail(s), <<>>)
  IN IF s = <<>> THEN None
     ELSE IF s \in {<<"n", "u", "l", "l">>, <<"f", "a", "l", "s", "e">>}
       THEN Some([type |-> "literal", falsy |-> TRUE, keys |-> 0])
     ELSE IF s = <<"t", "r", "u", "e">>
       THEN Some([type |-> "literal", falsy |-> FALSE, keys |-> 0])
     ELSE IF allDigits
       THEN IF Len(s) > 1 /\ Head(s) = "0" THEN None
            ELSE Some([type |-> "number", falsy |-> s = <<"0">>, keys |-> 0])
     ELSE IF Head(s) = "\""
       THEN IF StringEnd(s) = Len(s) /\ PlainChars(SubSeq(s, 2, Len(s) - 1))
            THEN Some([type |-> "string", falsy |-> Len(s) = 2, keys |-> Len(s) - 2])
            ELSE None
     ELSE IF Head(s) = "["
       THEN IF elems = None THEN None
            ELSE Some([type |-> "array", falsy |-> FALSE, keys |-> Len(elems[1])])
     ELSE IF Head(s) = "{"
       THEN IF members = None THEN None
            ELSE Some([type |-> "object", falsy |-> FALSE,
                       keys |-> Cardinality(Range(members[1])), names |-> members[1]])
     ELSE None

\* JSON bodies of POST /translate: text is None when the field is absent or
\* not a string; targetLanguages is None when the field is not an array
LangFr == <<"f", "r">>
TextS == <<"s">>
TranslateBodies ==
  { [valid |-> FALSE],
    [valid |-> TRUE, text |-> None, targetLanguage |-> Some(LangFr), targetLanguages |-> None],
    [valid |-> TRUE, text |-> Some(<<>>), targetLanguage |-> None,
     targetLanguages |-> Some(<<[str |-> TRUE, v |-> LangFr]>>)],
    [valid |-> TRUE, text |-> Some(TextS), targetLanguage |-> None, targetLanguages |-> None],
    [valid |-> TRUE, text |-> Some(TextS), targetLanguage |-> Some(LangFr),
     targetLanguages |-> Some(<<[str |-> FALSE]>>)],
    [valid |-> TRUE, text |-> Some(TextS), targetLanguage |-> None,
     targetLanguages |-> Some(<<[str |-> FALSE]>>)],
    [valid |-> TRUE, text |-> Some(TextS), targetLanguage |-> Some(LangFr), targetLanguages |-> None],
    [valid |-> TRUE, text |-> Some(TextS), targetLanguage |-> None,
     targetLanguages |-> Some(<<[str |-> FALSE], [str |-> TRUE, v |-> LangFr]>>)] }

\* chat completion content of the translation call: absent, blank, text that
\* is not JSON, an object cut short, an empty object, an empty array, an
\* object with one translation
JsonCut == <<"{", "\"", "f", "r", "\"", ":", "\"", "s", "\"">>
JsonFr == <<" ">> \o JsonCut \o <<"}", "\n">>
TranslateCompletions ==
  { None, Some(<<" ">>), Some(<<"x">>), Some(JsonCut), Some(<<"{", "}">>),
    Some(<<"[", "]">>), Some(JsonFr) }

\* variant: a request without a target language is translated to French
LanguageList_Default(body) ==
  IF body.targetLanguage # None THEN <<body.targetLanguage[1]>> ELSE <<<<"f", "r">>>>

\* lines 28-32
LanguageList(body) ==
  IF body.targetLanguages # None
  THEN LET strs == SelectSeq(body.targetLanguages[1], LAMBDA it : it.str)
       IN [i \in 1..Len(strs) |-> strs[i].v]
  ELSE IF body.targetLanguage # None THEN <<body.targetLanguage[1]>>
  ELSE <<>>

\* line 41
TranslatePrompt(text) ==
  IF Len(text) > TRANSLATE_MAX_CHARS THEN SubSeq(text, 1, TRANSLATE_MAX_CHARS) ELSE text

\* lines 7-41
TranslateEntry(body) ==
  LET rq == NewReq("translate")
  IN IF ~env.token THEN Done(rq, Fail(500, "Missing GITHUB_TOKEN."))
     ELSE IF ~body.valid THEN Done(rq, Thrown)
     ELSE IF body.text = None \/ body.text = Some(<<>>)
       THEN Done(rq, Fail(400, "Missing text to translate."))
     ELSE IF Len(LanguageList(body)) = 0
       THEN Done(rq, Fail(400, "Missing target language."))
     ELSE At(rq, "ai", [languageList |-> LanguageList(body),
                        prompt |-> TranslatePrompt(body.text[1])])

TranslateStart(r) ==
  /\ Begin(r)
  /\ \E body \in TranslateBodies : Set(r, Received(TranslateEntry(body), body))
  /\ UNCHANGED <<env, probe, ui, blobs, rows, nextId, now, last>>

\* the chat-completion call: an exception, a non-2xx answer, or a completion
TranslateAiOutcomes ==
  { [thrown |-> TRUE, ok |-> FALSE, content |-> None],
    [thrown |-> FALSE, ok |-> FALSE, content |-> None] }
  \cup { [thrown |-> FALSE, ok |-> TRUE, content |-> c] : c \in TranslateCompletions }

\* variant: only a parse failure is refused
NoTranslations_ParseOnly(parsed) == parsed = None

\* line 101: !translations || Object.keys(translations).length === 0, with
\* parsed = None for the null left by the catch
NoTranslations(parsed) ==
  parsed = None \/ parsed[1].falsy \/ parsed[1].keys = 0

\* lines 43-108; the completion is kept with the finished request
TranslateAnswered(rq, out) ==
  LET fin == At(rq, "done", [content |-> out.content])
  IN IF out.thrown THEN Done(fin, Thrown)
     ELSE IF ~out.ok THEN Done(fin, Fail(500, "AI request failed"))
     ELSE IF out.content = None \/ trim(out.content[1]) = <<>>
       THEN Done(fin, Fail(500, "No translation returned from the AI."))
     ELSE IF NoTranslations(JsonParse(trim(out.content[1])))
       THEN Done(fin, Fail(500, "Translation output was not valid JSON."))
     ELSE Done(fin, Json(200, [ok |-> TRUE,
                               translations |-> JsonParse(trim(out.content[1]))[1]]))

TranslateAi(r) ==
  /\ Running(r, "translate", "ai")
  /\ \E out \in TranslateAiOutcomes :
       Set(r, TranslateAnswered(Called(req[r], "ai"), out))
  /\ UNCHANGED <<env, probe, ui, blobs, rows, nextId, now, last, started, clients>>

\* ------------------------------------------------------- response delivery
\* what the caller of a finished request knows: the operation, whether it
\* succeeded, the path it named or was given back, the tags it sent; of an
\* Upload that failed, the path when the failure came from the insert
Delivered(rq) ==
  IF rq.op = "upload" /\ IsOk(rq.resp)
  THEN [op |-> rq.op, ok |-> TRUE, path |-> Some(rq.resp[1].body.path), tags |-> rq.loc.tags]
  ELSE IF rq.op = "upload" /\ rq.calls = <<"upload", "insert">>
  THEN [op |-> rq.op, ok |-> FALSE, path |-> Some(rq.loc.path), tags |-> None]
  ELSE IF rq.op = "delete" /\ IsOk(rq.resp)
  THEN [op |-> rq.op, ok |-> TRUE, path |-> Some(rq.loc.path), tags |-> None]
  ELSE [op |-> rq.op, ok |-> IsOk(rq.resp), path |-> None, tags |-> None]

\* the response reaches the caller.  "The request before this one" is what
\* a client that sends one request at a time remembers; when requests of
\* several clients overlap it is recorded only in a behaviour that starts
\* from a delivered response (last # NoRequest initially).
Finish(r) ==
  /\ req[r].pc = "done"
  /\ last' = IF clients = 1 \/ last # NoRequest THEN Delivered(req[r]) ELSE last
  /\ Set(r, IdleReq)
  /\ UNCHANGED <<env, probe, ui, blobs, rows, nextId, now, started, clients>>

\* --------------------------------------------------------- specifications
Stores ==
  /\ env = [token |-> TRUE, supabase |-> TRUE]
  /\ blobs = <<>>
  /\ rows = {}
  /\ nextId = 1
  /\ now = 1
  /\ req = [r \in Reqs |-> IdleReq]
  /\ last = NoRequest
  /\ started = 0

\* handlers of different requests interleave at their awaits
Init == Stores /\ clients = Cardinality(Reqs) /\ probe = NoProbe /\ ui = NoUi

\* one request at a time: the next one is sent after the response arrived
InitSeq == Stores /\ clients = 1 /\ probe = NoProbe /\ ui = NoUi

\* one request at a time, starting in the state left by an Upload of a.pdf
\* with tags followed by a Delete of it that failed at the metadata delete
\* (the state of C15_Witness): the blob is gone, the row is still there
OrphanRow ==
  NewRow(1, [document_name |-> <<"a">> \o Str_pdf, storage_path |-> PathA,
             tag |-> parseTags(Some(TagsAAB))])

InitOrphanRow ==
  /\ env = [token |-> TRUE, supabase |-> TRUE]
  /\ blobs = <<>>
  /\ rows = {OrphanRow}
  /\ nextId = 2
  /\ now \in 1..MaxTime
  /\ req = [r \in Reqs |-> IdleReq]
  /\ last = [op |-> "delete", ok |-> FALSE, path |-> None, tags |-> None]
  /\ started = 0
  /\ clients = 1
  /\ probe = NoProbe
  /\ ui = NoUi

Next ==
  \E r \in Reqs :
    \/ SummarizeStart(r)
    \/ SummarizeSignedUrl(r)
    \/ SummarizeDownload(r)
    \/ SummarizeAi(r)
    \/ SummarizeUpdate(r)
    \/ SummarizeInsert(r)
    \/ GetStart(r)
    \/ GetSignedUrl(r)
    \/ GetList(r)
    \/ GetSelect(r)
    \/ UploadStart(r)
    \/ UploadStore(r)
    \/ UploadInsert(r)
    \/ DeleteStart(r)
    \/ DeleteRemove(r)
    \/ DeleteRows(r)
    \/ PatchStart(r)
    \/ PatchUpdate(r)
    \/ TranslateStart(r)
    \/ TranslateAi(r)
    \/ Finish(r)

Spec == Init /\ [][Next]_vars

SpecSeq == InitSeq /\ [][Next]_vars

SpecOrphanRow == InitOrphanRow /\ [][Next]_vars

\* one request at a time, in a deployment where GITHUB_TOKEN, the Supabase
\* variables, both or neither are set
InitEnv ==
  /\ env \in [token : BOOLEAN, supabase : BOOLEAN]
  /\ blobs = <<>>
  /\ rows = {}
  /\ nextId = 1
  /\ now = 1
  /\ req = [r \in Reqs |-> IdleReq]
  /\ last = NoRequest
  /\ started = 0
  /\ clients = 1
  /\ probe = NoProbe
  /\ ui = NoUi

SpecEnv == InitEnv /\ [][Next]_vars

\* one request at a time, starting in the state left by an Upload of a.pdf,
\* a Summarize of it and a Delete of it that failed at the metadata delete:
\* the blob is gone, the row with its summary is still there
SummarizedOrphanRow == UpdateSummary(OrphanRow, <<"s">>, 1)

InitStaleSummary ==
  /\ env = [token |-> TRUE, supabase |-> TRUE]
  /\ blobs = <<>>
  /\ rows = {SummarizedOrphanRow}
  /\ nextId = 2
  /\ now \in 1..MaxTime
  /\ req = [r \in Reqs |-> IdleReq]
  /\ last = [op |-> "delete", ok |-> FALSE, path |-> None, tags |-> None]
  /\ started = 0
  /\ clients = 1
  /\ probe = NoProbe
  /\ ui = NoUi

SpecStaleSummary == InitStaleSummary /\ [][Next]_vars

\* one request at a time, starting in the state left by an Upload of a.pdf
\* that stored its blob and failed at the metadata insert (the state of
\* C16): the blob is there, no row is
InitPendingUpload ==
  /\ env = [token |-> TRUE, supabase |-> TRUE]
  /\ blobs = [p \in {PathA} |-> [file |-> FileA, created_at |-> 1]]
  /\ rows = {}
  /\ nextId = 1
  /\ now \in 1..MaxTime
  /\ req = [r \in Reqs |-> IdleReq]
  /\ last = [op |-> "upload", ok |-> FALSE, path |-> Some(PathA), tags |-> None]
  /\ started = 0
  /\ clients = 1
  /\ probe = NoProbe
  /\ ui = NoUi

\* a handler that has received its request takes its next step, and its
\* response is delivered
Serve ==
  \E r \in Reqs :
    \/ SummarizeSignedUrl(r)
    \/ SummarizeDownload(r)
    \/ SummarizeAi(r)
    \/ SummarizeUpdate(r)
    \/ SummarizeInsert(r)
    \/ GetSignedUrl(r)
    \/ GetList(r)
    \/ GetSelect(r)
    \/ UploadStore(r)
    \/ UploadInsert(r)
    \/ DeleteRemove(r)
    \/ DeleteRows(r)
    \/ PatchUpdate(r)
    \/ TranslateAi(r)
    \/ Finish(r)

\* the runtime runs every handler to its response; whether another request
\* is sent is up to the user
SpecPendingUpload == InitPendingUpload /\ [][Next]_vars /\ WF_vars(Serve)

\* a Summarize of uploads/a.pdf that has its completion and waits at its
\* metadata update
RacingSummarize(summary, t) ==
  LET body == [valid |-> TRUE, path |-> Some(PathA)]
      rq == Called(Called(Called(Received(NewReq("summarize"), body),
                                 "createSignedUrl"), "fetch"), "ai")
  IN At(rq, "update", [path |-> PathA, summary |-> summary, summaryTimestamp |-> t])

\* two Summarize requests of one document race: a.pdf was uploaded (blob and
\* row stored, the response delivered), then both requests were sent, the
\* first got the completion "s" and the second "t", and both wait at their
\* update.  One more request may arrive.
InitRace ==
  /\ env = [token |-> TRUE, supabase |-> TRUE]
  /\ blobs = [p \in {PathA} |-> [file |-> FileA, created_at |-> 1]]
  /\ rows = {OrphanRow}
  /\ nextId = 2
  /\ now \in 1..MaxTime
  /\ \E t1, t2 \in 1..MaxTime :
       /\ t1 <= now /\ t2 <= now
       /\ req = [r \in Reqs |-> IF r = 1 THEN RacingSummarize(<<"s">>, t1)
                                         ELSE RacingSummarize(<<"t">>, t2)]
  /\ last = [op |-> "upload", ok |-> TRUE, path |-> Some(PathA), tags |-> Some(TagsAAB)]
  /\ started = MaxRequests - 1
  /\ clients = Cardinality(Reqs)
  /\ probe = NoProbe
  /\ ui = NoUi

SpecRace == InitRace /\ [][Next]_vars

\* ------------------------------------------------- the end-to-end scenario
\* one user uploads report.pdf with the tags "finance,q3", lists, summarizes
\* the document, lists, deletes it and lists again, going on to the next
\* request when the previous one has succeeded
ReportPdf == <<"r", "e", "p", "o", "r", "t">> \o Str_pdf
TagsFinanceQ3 == <<"f", "i", "n", "a", "n", "c", "e", ",", "q", "3">>
ReportPath == UploadsPath(ReportPdf)
\* handleUpload sends the trimmed name field, here empty
ReportForm ==
  [file |-> Some([name |-> ReportPdf, text |-> <<"x", " ", "\n", "y">>]),
   documentName |-> Some(<<>>), tags |-> Some(TagsFinanceQ3)]
ReportBody == [valid |-> TRUE, path |-> Some(ReportPath)]
ListQuery == [download |-> None]
ScenarioLength == 6

\* the k-th request of the scenario as its handler receives it
ScenarioRequest(k) ==
  CASE k = 1 -> Received(UploadEntry(ReportForm), ReportForm)
    [] k = 3 -> Received(SummarizeEntry(ReportBody), ReportBody)
    [] k = 5 -> Received(DeleteEntry(ReportBody), ReportBody)
    [] OTHER -> Received(GetEntry(ListQuery), ListQuery)

ScenarioStart(r) ==
  /\ req[r].op = "idle"
  /\ InFlight = {}
  /\ FirstIdle(r)
  /\ started < ScenarioLength
  /\ started = 0 \/ last.ok
  /\ started' = started + 1
  /\ Set(r, ScenarioRequest(started + 1))
  /\ UNCHANGED <<env, probe, ui, blobs, rows, nextId, now, last, clients>>

\* the steps of the four handlers the scenario calls; the insert of
\* Summarize is not among them: with one user the row of the Upload is there
\* when the update runs (C26 states that the insert is never awaited)
NextScenario ==
  \E r \in Reqs :
    \/ ScenarioStart(r)
    \/ UploadStore(r)
    \/ UploadInsert(r)
    \/ GetList(r)
    \/ GetSelect(r)
    \/ SummarizeSignedUrl(r)
    \/ SummarizeDownload(r)
    \/ SummarizeAi(r)
    \/ SummarizeUpdate(r)
    \/ DeleteRemove(r)
    \/ DeleteRows(r)
    \/ Finish(r)

SpecScenario == InitSeq /\ [][NextScenario]_vars

\* ------------------------------------------------ the page component Home
\* The fields of the component that hold the selection, the summary and the
\* preview, with handleSelect, handleSummarize and the preview-expiry effect.
\* The requests the page sends are served by the handlers above.  The page
\* clock counts ticks of five minutes.
TickMs == 300000
\* handleSelect: Date.now() + 900000
PreviewKeepMs == 900000
PreviewExpired == "Preview link expired. Please reload the document."
DateNow == ui.clock * TickMs
LastTick == MaxClock + (PreviewKeepMs \div TickMs)

\* the page after its first render, with a.pdf uploaded and b.PDF uploaded
\* by an Upload whose insert failed
InitClient ==
  /\ env = [token |-> TRUE, supabase |-> TRUE]
  /\ blobs = [p \in {PathA, PathB} |-> [file |-> FileA, created_at |-> 1]]
  /\ rows = {OrphanRow}
  /\ nextId = 2
  /\ now = MaxTime
  /\ req = [r \in Reqs |-> IdleReq]
  /\ last = NoRequest
  /\ started = 0
  /\ clients = Cardinality(Reqs)
  /\ probe = NoProbe
  /\ ui = [open |-> TRUE, clock |-> 0,
           selectedPath |-> None, summaryText |-> None, summaryTarget |-> None,
           isSummarizing |-> FALSE, previewUrl |-> None, isPreviewLoading |-> FALSE,
           previewError |-> None, previewExpiresAt |-> None,
           timers |-> {}, awaiting |-> [r \in Reqs |-> None]]

\* the user clicks and the handler sends its fetch on a free connection
Fetch(r) ==
  /\ req[r].op = "idle"
  /\ NoneDone
  /\ FirstIdle(r)
  /\ started < MaxClicks
  /\ started' = started + 1

\* the response of the fetch on r is there and the handler that awaits it
\* resumes
Resumes(r, kind) ==
  /\ req[r].pc = "done"
  /\ ui.awaiting[r] # None
  /\ ui.awaiting[r][1].kind = kind
  /\ ui.clock <= MaxClock

\* !res.ok || !data?.ok is false
ResponseOk(rq) == IsOk(rq.resp)

\* variant: the effect sets its timeout and never clears one
PreviewEffect_NoCleanup(timers, old, new) ==
  IF new = old \/ new = <<>> THEN timers ELSE timers \cup {new[1]}

\* lines 576-586: the effect on previewExpiresAt; when the value changes the
\* timeout of the previous value is cleared and one is set for the new value
PreviewEffect(timers, old, new) ==
  IF new = old THEN timers
  ELSE IF new = None THEN {}
  ELSE {new[1]}

\* lines 549-559: up to the fetch
handleSelect(r, path) ==
  /\ Fetch(r)
  /\ LET query == [download |-> Some(path)]
     IN Set(r, Received(GetEntry(query), query))
  /\ ui' = [ui EXCEPT !.selectedPath = Some(path),
                      !.summaryText = None,
                      !.previewUrl = None,
                      !.previewError = None,
                      !.previewExpiresAt = None,
                      !.isPreviewLoading = TRUE,
                      !.timers = PreviewEffect(@, ui.previewExpiresAt, None),
                      !.awaiting[r] = Some([kind |-> "select", path |-> path])]
  /\ UNCHANGED <<env, probe, blobs, rows, nextId, now, last, clients>>

\* lines 560-573: the response of the link request
handleSelectAnswered(r) ==
  /\ Resumes(r, "select")
  /\ ui' = IF ResponseOk(req[r])
           THEN [ui EXCEPT !.previewUrl = Some([url |-> req[r].resp[1].body.url,
                                                issued |-> ui.clock]),
                           !.previewExpiresAt = Some(DateNow + PreviewKeepMs),
                           !.timers = PreviewEffect(@, ui.previewExpiresAt,
                                                    Some(DateNow + PreviewKeepMs)),
                           !.isPreviewLoading = FALSE,
                           !.awaiting[r] = None]
           ELSE [ui EXCEPT !.previewError = Some(PreviewExpired),
                           !.isPreviewLoading = FALSE,
                           !.awaiting[r] = None]
  /\ Set(r, IdleReq)
  /\ UNCHANGED <<env, probe, blobs, rows, nextId, now, last, started, clients>>

\* lines 576-586: the timeout of the effect fires
previewTimeout ==
  /\ ui.open
  /\ \E d \in ui.timers :
       /\ DateNow >= d
       /\ ui' = [ui EXCEPT !.previewUrl = None,
                           !.previewError = Some(PreviewExpired),
                           !.timers = @ \ {d}]
  /\ UNCHANGED <<env, probe, blobs, rows, nextId, now, req, last, started, clients>>

\* lines 521-533: up to the fetch; the library button of the document is
\* disabled while its summary is awaited
handleSummarize(r, path) ==
  /\ Fetch(r)
  /\ ~(ui.isSummarizing /\ ui.summaryTarget = Some(path))
  /\ LET body == [valid |-> TRUE, path |-> Some(path)]
     IN Set(r, Received(SummarizeEntry(body), body))
  /\ ui' = [ui EXCEPT !.selectedPath = Some(path),
                      !.isSummarizing = TRUE,
                      !.summaryTarget = Some(path),
                      !.summaryText = None,
                      !.awaiting[r] = Some([kind |-> "summarize", path |-> path])]
  /\ UNCHANGED <<env, probe, blobs, rows, nextId, now, last, clients>>

\* lines 534-546: the response of POST /api/summarize; on success the
\* summary is kept and fetchFiles sends the list request
handleSummarizeAnswered(r) ==
  /\ Resumes(r, "summarize")
  /\ IF ResponseOk(req[r])
     THEN /\ ui' = [ui EXCEPT !.summaryText = Some(req[r].resp[1].body.summary),
                              !.awaiting[r] = Some([kind |-> "files",
                                                    path |-> ui.awaiting[r][1].path])]
          /\ Set(r, Received(GetEntry([download |-> None]), [download |-> None]))
     ELSE /\ ui' = [ui EXCEPT !.isSummarizing = FALSE, !.awaiting[r] = None]
          /\ Set(r, IdleReq)
  /\ UNCHANGED <<env, probe, blobs, rows, nextId, now, last, started, clients>>

\* lines 420-436 and 539-546: fetchFiles has its answer (the list it stores
\* is not among the fields kept here), then the finally block runs
fetchFilesAnswered(r) ==
  /\ Resumes(r, "files")
  /\ ui' = [ui EXCEPT !.isSummarizing = FALSE, !.awaiting[r] = None]
  /\ Set(r, IdleReq)
  /\ UNCHANGED <<env, probe, blobs, rows, nextId, now, last, started, clients>>

\* time passes on the page
Tick ==
  /\ ui.open
  /\ ui.clock < LastTick
  /\ ui' = [ui EXCEPT !.clock = @ + 1]
  /\ UNCHANGED <<env, probe, blobs, rows, nextId, now, req, last, started, clients>>

NextClient ==
  \/ \E r \in Reqs :
       \/ \E path \in Paths : handleSelect(r, path)
       \/ \E path \in Paths : handleSummarize(r, path)
       \/ handleSelectAnswered(r)
       \/ handleSummarizeAnswered(r)
       \/ fetchFilesAnswered(r)
       \/ GetSignedUrl(r)
       \/ GetList(r)
       \/ GetSelect(r)
       \/ SummarizeSignedUrl(r)
       \/ SummarizeDownload(r)
       \/ SummarizeAi(r)
       \/ SummarizeUpdate(r)
       \/ SummarizeInsert(r)
  \/ previewTimeout
  \/ Tick

SpecClient == InitClient /\ [][NextClient]_vars

\* the browser runs a timeout that is due, and time passes
SpecClientLive ==
  InitClient /\ [][NextClient]_vars /\ WF_vars(previewTimeout) /\ WF_vars(Tick)

\* ------------------------------------ the library of the page component
\* The fields of Home that hold the list snapshot, the status line, the
\* selection, the summary and its translation, with fetchFiles, handleUpload,
\* handleDelete, handleSummarize, saveEditing and handleTranslateSummary.
\* Each handler holds one connection from its fetch to its return; a response
\* that has left the server reaches the handler after any delay, so the
\* responses of two handlers arrive in either order.  ui.shown and ui.newest
\* record, by the order in which the list requests were sent, which one the
\* snapshot comes from and which is the latest one answered.
LibraryPath == PathB
UploadForm == [file |-> Some(FileA), documentName |-> Some(<<"a">>), tags |-> Some(TagsAAB)]
EditingName == <<"n">>
EditingTag == [kind |-> "string", v |-> <<"c">>]

\* the row of b.PDF, summarized before the page was opened
LibraryRow ==
  UpdateSummary(NewRow(1, [document_name |-> <<"b", ".", "P", "D", "F">>,
                           storage_path |-> PathB, tag |-> <<>>]), <<"s">>, 1)

\* fetch("/api/files", {cache: "no-store"})
ListRequest == Received(GetEntry(ListQuery), ListQuery)

\* a handler that has sent a fetch and awaits its response
Awaiting(kind, stage, path, text, seq) ==
  [kind |-> kind, stage |-> stage, path |-> path, text |-> text, seq |-> seq,
   resp |-> None]

\* the page after its first render: the effect of the mount has called
\* fetchFiles and the list request is on its way
InitLibrary ==
  /\ env = [token |-> TRUE, supabase |-> TRUE]
  /\ blobs = [p \in {PathB} |-> [file |-> FileA, created_at |-> 1]]
  /\ rows = {LibraryRow}
  /\ nextId = 2
  /\ now = MaxTime
  /\ req = [r \in Reqs |-> IF r = 1 THEN ListRequest ELSE IdleReq]
  /\ last = NoRequest
  /\ started = 0
  /\ clients = Cardinality(Reqs)
  /\ probe = NoProbe
  /\ ui = [open |-> TRUE, files |-> <<>>, status |-> "Ready",
           selectedPath |-> None, summaryText |-> None, summaryTarget |-> None,
           isSummarizing |-> FALSE, translatedText |-> None, isTranslating |-> FALSE,
           sent |-> 1, shown |-> 0, newest |-> [seq |-> 0, items |-> <<>>],
           awaiting |-> [r \in Reqs |-> IF r = 1
                                        THEN Some(Awaiting("mount", "files", None, None, 1))
                                        ELSE None]]

\* files.find((file) => file.path === selectedPath) ?? null
selectedDocument(u) ==
  LET hits == {i \in 1..Len(u.files) : Some(u.files[i].path) = u.selectedPath}
  IN IF hits = {} THEN None
     ELSE Some(u.files[CHOOSE i \in hits : \A j \in hits : i <= j])

\* summaryText ?? selectedDocument?.summary ?? null
summaryDisplay(u) ==
  IF u.summaryText # None THEN u.summaryText
  ELSE IF selectedDocument(u) # None THEN selectedDocument(u)[1].summary
  ELSE None

\* lines 592-594: the effect on summaryDisplay, run with the render that
\* follows the state change from old to new
Rendered(old, new) ==
  IF summaryDisplay(new) # summaryDisplay(old)
  THEN [new EXCEPT !.translatedText = None]
  ELSE new

\* data?.error ?? fallback, with data null for a body that is not JSON
ErrorMessage(resp, fallback) ==
  IF resp[1].json /\ "error" \in DOMAIN resp[1].body THEN resp[1].body.error
  ELSE fallback

\* a click finds a free connection
Free(r) == req[r].op = "idle" /\ ui.awaiting[r] = None
Click(r) ==
  /\ Free(r)
  /\ \A q \in Reqs : q < r => ~Free(q)
  /\ NoneDone
  /\ started < MaxClicks
  /\ started' = started + 1

\* the response of the request on r leaves the server for the page
responseSent(r) ==
  /\ req[r].pc = "done"
  /\ ui.awaiting[r] # None
  /\ ui' = [ui EXCEPT !.awaiting[r] = Some([@[1] EXCEPT !.resp = req[r].resp])]
  /\ Set(r, IdleReq)
  /\ UNCHANGED <<env, probe, blobs, rows, nextId, now, last, started, clients>>

\* the handler on r resumes with its response
Arrived(r, kind, stage) ==
  /\ ui.awaiting[r] # None
  /\ ui.awaiting[r][1].kind = kind
  /\ ui.awaiting[r][1].stage = stage
  /\ ui.awaiting[r][1].resp # None
  /\ NoneDone

\* the handler on r calls fetchFiles, which sends the list request
CallsFetchFiles(r, u) ==
  /\ ui' = [u EXCEPT !.sent = @ + 1,
                     !.awaiting[r] = Some(Awaiting(ui.awaiting[r][1].kind, "files",
                                                   ui.awaiting[r][1].path, None,
                                                   u.sent + 1))]
  /\ Set(r, ListRequest)

\* the catch block of the handler on r: the message becomes the status
Caught(r, u, fallback) ==
  /\ ui' = [u EXCEPT !.status = ErrorMessage(ui.awaiting[r][1].resp, fallback),
                     !.awaiting[r] = None]
  /\ req' = req

\* lines 451-462: up to the fetch, with a file chosen
handleUpload(r) ==
  /\ Click(r)
  /\ Set(r, Received(UploadEntry(UploadForm), UploadForm))
  /\ ui' = [ui EXCEPT !.status = "Uploading to Database...",
                      !.awaiting[r] = Some(Awaiting("upload", "action", None, None, 0))]
  /\ UNCHANGED <<env, probe, blobs, rows, nextId, now, last, clients>>

\* lines 463-477: the response of POST /api/files
handleUploadResumes(r) ==
  /\ Arrived(r, "upload", "action")
  /\ IF IsOk(ui.awaiting[r][1].resp)
     THEN CallsFetchFiles(r, ui)
     ELSE Caught(r, ui, "Upload failed.")
  /\ UNCHANGED <<env, probe, blobs, rows, nextId, now, last, started, clients>>

\* lines 501-508: up to the fetch
handleDelete(r, path) ==
  /\ Click(r)
  /\ LET body == [valid |-> TRUE, path |-> Some(path)]
     IN Set(r, Received(DeleteEntry(body), body))
  /\ ui' = [ui EXCEPT !.status = "Removing file...",
                      !.awaiting[r] = Some(Awaiting("delete", "action", Some(path), None, 0))]
  /\ UNCHANGED <<env, probe, blobs, rows, nextId, now, last, clients>>

\* lines 509-518: the response of DELETE /api/files
handleDeleteResumes(r) ==
  /\ Arrived(r, "delete", "action")
  /\ IF IsOk(ui.awaiting[r][1].resp)
     THEN CallsFetchFiles(r, ui)
     ELSE Caught(r, ui, "Delete failed.")
  /\ UNCHANGED <<env, probe, blobs, rows, nextId, now, last, started, clients>>

\* lines 620-637: up to the fetch, with a title typed
saveEditing(r, path) ==
  /\ Click(r)
  /\ LET body == [valid |-> TRUE, path |-> Some(path), documentName |-> Some(EditingName),
                  tag |-> EditingTag, note_taking |-> None]
     IN Set(r, Received(PatchEntry(body), body))
  /\ ui' = [ui EXCEPT !.status = "Saving changes...",
                      !.awaiting[r] = Some(Awaiting("edit", "action", Some(path), None, 0))]
  /\ UNCHANGED <<env, probe, blobs, rows, nextId, now, last, clients>>

\* lines 638-650: the response of PATCH /api/files
saveEditingResumes(r) ==
  /\ Arrived(r, "edit", "action")
  /\ IF IsOk(ui.awaiting[r][1].resp)
     THEN CallsFetchFiles(r, ui)
     ELSE Caught(r, ui, "Update failed.")
  /\ UNCHANGED <<env, probe, blobs, rows, nextId, now, last, started, clients>>

\* lines 521-533 as handleSummarize above, with the status line and the
\* render that follows
handleSummarizeListed(r, path) ==
  /\ Click(r)
  /\ ~(ui.isSummarizing /\ ui.summaryTarget = Some(path))
  /\ LET body == [valid |-> TRUE, path |-> Some(path)]
     IN Set(r, Received(SummarizeEntry(body), body))
  /\ ui' = Rendered(ui, [ui EXCEPT !.selectedPath = Some(path),
                                   !.isSummarizing = TRUE,
                                   !.summaryTarget = Some(path),
                                   !.summaryText = None,
                                   !.status = "Summarizing...",
                                   !.awaiting[r] = Some(Awaiting("summarize", "action",
                                                                 Some(path), None, 0))])
  /\ UNCHANGED <<env, probe, blobs, rows, nextId, now, last, clients>>

\* lines 534-546: the response of POST /api/summarize
handleSummarizeListedResumes(r) ==
  /\ Arrived(r, "summarize", "action")
  /\ LET resp == ui.awaiting[r][1].resp
     IN IF IsOk(resp)
        THEN CallsFetchFiles(r, Rendered(ui, [ui EXCEPT !.summaryText =
                                                         Some(resp[1].body.summary)]))
        ELSE Caught(r, [ui EXCEPT !.isSummarizing = FALSE], "Summary failed.")
  /\ UNCHANGED <<env, probe, blobs, rows, nextId, now, last, started, clients>>

\* variant: a failed refetch empties the snapshot
FetchedFiles_ClearOnFailure(files, resp) ==
  IF IsOk(resp) THEN resp[1].body.items ELSE <<>>

\* lines 424-429: setFiles(data.items ?? []) when the response is ok
FetchedFiles(files, resp) ==
  IF IsOk(resp) THEN resp[1].body.items ELSE files

\* variant: a response to a request older than the one shown is dropped
setFiles_IgnoreStale(u, w) ==
  IF w.seq < u.shown THEN u.files ELSE FetchedFiles(u.files, w.resp)

\* line 428: the snapshot after the response w, whatever is shown and
\* whenever the request of w was sent
setFiles(u, w) == FetchedFiles(u.files, w.resp)

\* the status line when fetchFiles and the handler that called it return
Completion(kind, resp) ==
  IF kind = "upload" THEN "Upload complete."
  ELSE IF kind = "delete" THEN "File removed."
  ELSE IF kind = "summarize" THEN "Summary ready."
  ELSE IF kind = "edit" THEN "Document updated."
  ELSE IF IsOk(resp) THEN "Library synced."
  ELSE ErrorMessage(resp, "Failed to load files.")

\* lines 420-436: the response of GET /api/files, then the rest of the
\* handler that awaited fetchFiles
fetchFilesResumes(r) ==
  /\ ui.awaiting[r] # None
  /\ Arrived(r, ui.awaiting[r][1].kind, "files")
  /\ LET w == ui.awaiting[r][1]
         ok == IsOk(w.resp)
     IN ui' = Rendered(ui,
                [ui EXCEPT !.files = setFiles(ui, w),
                           !.status = Completion(w.kind, w.resp),
                           !.isSummarizing = IF w.kind = "summarize" THEN FALSE ELSE @,
                           !.shown = IF ok THEN w.seq ELSE @,
                           !.newest = IF ok /\ w.seq > @.seq
                                      THEN [seq |-> w.seq, items |-> w.resp[1].body.items]
                                      ELSE @,
                           !.awaiting[r] = None])
  /\ UNCHANGED <<env, probe, blobs, rows, nextId, now, req, last, started, clients>>

\* data.translations?.[language] ?? null: the translation of text, when the
\* object has a member for the language
TranslationOf(resp, text, language) ==
  LET translations == resp[1].body.translations
  IN IF "names" \in DOMAIN translations /\ language \in Range(translations.names)
     THEN Some([of |-> text, to |-> language])
     ELSE None

\* lines 680-703: up to the fetch, for a language other than English
handleTranslateSummary(r, language) ==
  /\ summaryDisplay(ui) # None
  /\ summaryDisplay(ui) # Some(<<>>)
  /\ Click(r)
  /\ LET text == summaryDisplay(ui)[1]
         body == [valid |-> TRUE, text |-> Some(text), targetLanguage |-> None,
                  targetLanguages |-> Some(<<[str |-> TRUE, v |-> language]>>)]
     IN /\ Set(r, Received(TranslateEntry(body), body))
        /\ ui' = [ui EXCEPT !.isTranslating = TRUE,
                            !.status = "Translating summary...",
                            !.awaiting[r] = Some(Awaiting("translate", "action", None,
                                                          Some(text), 0))]
  /\ UNCHANGED <<env, probe, blobs, rows, nextId, now, last, clients>>

\* lines 704-724: the response of POST /api/translate
handleTranslateSummaryResumes(r) ==
  /\ Arrived(r, "translate", "action")
  /\ LET w == ui.awaiting[r][1]
         translated == IF IsOk(w.resp) THEN TranslationOf(w.resp, w.text[1], LangFr) ELSE None
     IN ui' = [ui EXCEPT !.translatedText = IF translated # None THEN translated ELSE @,
                         !.status = IF translated # None THEN "Translation ready."
                                    ELSE IF IsOk(w.resp)
                                      THEN "Translation missing from response."
                                    ELSE ErrorMessage(w.resp, "Translation failed."),
                         !.isTranslating = FALSE,
                         !.awaiting[r] = None]
  /\ UNCHANGED <<env, probe, blobs, rows, nextId, now, req, last, started, clients>>

\* lines 685-690: English shows the summary as it is
handleTranslateSummaryEnglish ==
  /\ ui.open
  /\ summaryDisplay(ui) # None
  /\ summaryDisplay(ui) # Some(<<>>)
  /\ ui' = [ui EXCEPT !.translatedText = None, !.status = "Showing English summary."]
  /\ UNCHANGED <<env, probe, blobs, rows, nextId, now, req, last, started, clients>>

NextLibrary ==
  \/ \E r \in Reqs :
       \/ handleUpload(r)
       \/ handleUploadResumes(r)
       \/ handleDelete(r, LibraryPath)
       \/ handleDeleteResumes(r)
       \/ saveEditing(r, LibraryPath)
       \/ saveEditingResumes(r)
       \/ handleSummarizeListed(r, LibraryPath)
       \/ handleSummarizeListedResumes(r)
       \/ fetchFilesResumes(r)
       \/ responseSent(r)
       \/ GetList(r)
       \/ GetSelect(r)
       \/ UploadStore(r)
       \/ UploadInsert(r)
       \/ DeleteRemove(r)
       \/ DeleteRows(r)
       \/ PatchUpdate(r)
       \/ SummarizeSignedUrl(r)
       \/ SummarizeDownload(r)
       \/ SummarizeAi(r)
       \/ SummarizeUpdate(r)
       \/ SummarizeInsert(r)

SpecLibrary == InitLibrary /\ [][NextLibrary]_vars

\* the summary view of the page: summaries and their translations; nothing
\* here removes the row of the document, so the summarize route never inserts
NextSummaryView ==
  \/ \E r \in Reqs :
       \/ handleSummarizeListed(r, LibraryPath)
       \/ handleSummarizeListedResumes(r)
       \/ handleTranslateSummary(r, LangFr)
       \/ handleTranslateSummaryResumes(r)
       \/ fetchFilesResumes(r)
       \/ responseSent(r)
       \/ GetList(r)
       \/ GetSelect(r)
       \/ SummarizeSignedUrl(r)
       \/ SummarizeDownload(r)
       \/ SummarizeAi(r)
       \/ SummarizeUpdate(r)
       \/ TranslateAi(r)
  \/ handleTranslateSummaryEnglish

SpecSummaryView == InitLibrary /\ [][NextSummaryView]_vars

\* ------------------------------------- the pure functions of files/route.ts
\* all strings over an alphabet up to a length
Strings(alphabet, maxLen) == UNION { [1..k -> alphabet] : k \in 0..maxLen }

Str_MyFile == <<"M", "y", " ", "F", "i", "l", "e">>
Str_UpperExt == <<"d", ".", "p", "D", "f">>
Str_SpacedPdf == <<"d", " ", "d", ".", "p", "d", "f">>
TagsXY == <<"x", ",", " ", "y">>
TagsJsonXY == <<"[", "\"", "x", "\"", ",", "\"", "y", "\"", "]">>
ItemX == [str |-> TRUE, v |-> <<"x">>]
ItemY == [str |-> TRUE, v |-> <<"y">>]

\* file names: generated ones and the example of the documentation
NameInputs ==
  Strings({".", "p", "d", "f", "D", " "}, MaxNameLen)
    \cup {Str_MyFile, Str_UpperExt, Str_SpacedPdf}

\* the tags field of the upload form: absent, or a string
FormTagInputs ==
  {None} \cup { Some(t) : t \in Strings({"x", "y", ",", " ", "\"", "[", "]"}, MaxTagLen)
                                  \cup {TagsXY, TagsJsonXY, TagsAAB} }

\* the tag field of a PATCH body: a list, a string, or another JSON value
TagItems == {ItemX, ItemY, [str |-> TRUE, v |-> <<" ", "x">>], [str |-> TRUE, v |-> <<>>],
             [str |-> TRUE, v |-> <<"\"", "x", "\"">>], [str |-> FALSE]}
TagLists == Strings(TagItems, 2)
TagTexts ==
  Strings({"x", ",", " ", "\"", "[", "]"}, MaxTagLen) \cup {TagsXY, TagsJsonXY, TagsAAB}

InitPure ==
  /\ Stores
  /\ clients = 0
  /\ ui = NoUi
  /\ probe \in { [fn |-> "normalizePdfName", in |-> [name |-> n], outs |-> <<>>] : n \in NameInputs }
               \cup { [fn |-> "parseTags", in |-> [tags |-> t], outs |-> <<>>] : t \in FormTagInputs }
               \cup { [fn |-> "normalizeTagValue", in |-> [list |-> a], outs |-> <<>>] : a \in TagLists }
               \cup { [fn |-> "normalizeTagValue", in |-> [text |-> t], outs |-> <<>>] : t \in TagTexts }
               \cup { [fn |-> "normalizeTagValue", in |-> [other |-> TRUE], outs |-> <<>>] }

\* the tag value of a probe of normalizeTagValue
TagValue(in) ==
  IF "list" \in DOMAIN in THEN [kind |-> "array", v |-> in.list]
  ELSE IF "text" \in DOMAIN in THEN [kind |-> "string", v |-> in.text]
  ELSE TagOther

Applied(fn) == probe.fn = fn /\ probe.outs # <<>>
Result == probe.outs[1]

\* Upload names the blob normalizePdfName(desiredName); the name a stored
\* blob is listed under can be sent as the name of another upload
ApplyNormalizePdfName ==
  /\ probe.fn = "normalizePdfName"
  /\ Len(probe.outs) < 2
  /\ probe' = [probe EXCEPT !.outs =
                 Append(@, normalizePdfName(IF @ = <<>> THEN probe.in.name ELSE @[Len(@)]))]
  /\ UNCHANGED <<env, ui, blobs, rows, nextId, now, req, last, started, clients>>

\* Upload stores parseTags(typeof tagsRaw === "string" ? tagsRaw : null)
ApplyParseTags ==
  /\ probe.fn = "parseTags"
  /\ probe.outs = <<>>
  /\ probe' = [probe EXCEPT !.outs = <<parseTags(probe.in.tags)>>]
  /\ UNCHANGED <<env, ui, blobs, rows, nextId, now, req, last, started, clients>>

\* PATCH stores normalizeTagValue(body.tag)
ApplyNormalizeTagValue ==
  /\ probe.fn = "normalizeTagValue"
  /\ probe.outs = <<>>
  /\ probe' = [probe EXCEPT !.outs = <<normalizeTagValue(TagValue(probe.in))>>]
  /\ UNCHANGED <<env, ui, blobs, rows, nextId, now, req, last, started, clients>>

NextPure == ApplyNormalizePdfName \/ ApplyParseTags \/ ApplyNormalizeTagValue

SpecPure == InitPure /\ [][NextPure]_vars

\* ------------------------------------------------------------- properties
Count(rs, path) == Cardinality(RowsAt(rs, path))
Finished(r, op) == req[r].op = op /\ req[r].pc = "done"
Answer(r) == req[r].resp[1]
\* request r takes a step out of the await pc of handler op
Leaves(r, op, pc) == Running(r, op, pc) /\ req'[r] # req[r]
ListAnswered(r) == Finished(r, "get") /\ IsOk(req[r].resp) /\ "items" \in DOMAIN Answer(r).body
ItemPaths(items) == {items[i].path : i \in 1..Len(items)}

\* C1 (SpecSeq): with one request at a time, the step that completes a
\* successful Summarize of a path leaves exactly one row for the path when
\* the path had none (the row is created, named by the last segment of the
\* path) or one (that same row, by id, is updated), and the row carries the
\* returned summary.
C1_UpsertSequential ==
  [][\A r \in Reqs :
       (req[r].op = "summarize" /\ req[r].pc \in {"update", "insert"}
          /\ req'[r].pc = "done" /\ IsOk(req'[r].resp))
       => LET p == req[r].loc.path
          IN /\ Count(rows, p) <= 1 => Count(rows', p) = 1
             /\ Count(rows, p) = 0
                  => \A d \in RowsAt(rows', p) : UploadsPath(d.document_name) = p
             /\ Count(rows, p) = 1
                  => {d.id : d \in RowsAt(rows', p)} = {d.id : d \in RowsAt(rows, p)}
             /\ \A d \in RowsAt(rows', p) :
                  d.summary_text = Some(req'[r].resp[1].body.summary)]_vars

\* a second Summarize has updated the row that an earlier Summarize created
C1_Witness ==
  \E r \in Reqs :
    /\ Finished(r, "summarize") /\ IsOk(req[r].resp)
    /\ req[r].calls = <<"createSignedUrl", "fetch", "ai", "update">>
    /\ Count(rows, req[r].loc.path) = 1
    /\ \A d \in RowsAt(rows, req[r].loc.path) : d.tag = None

\* C2 (Spec): a path whose rows were all created by Summarize requests (the
\* insert of Summarize leaves tag null) never has more than one row, under
\* any interleaving of Summarize requests.
C2_NoDuplicateFromConcurrentSummarize ==
  \A p \in Paths :
    (\A d \in RowsAt(rows, p) : d.tag = None) => Count(rows, p) <= 1

\* C3 (Spec): storage_path is a unique key of the metadata table in every
\* reachable state.
C3_UniqueStoragePath == \A p \in Paths : Count(rows, p) <= 1

InputTagSet(tags) ==
  IF tags = None THEN {}
  ELSE {trim(x) : x \in Range(split(tags[1], ","))} \ {<<>>}

\* C5 (SpecSeq): the List issued right after an Upload that answered
\* {ok, path} has exactly one entry with that path, and the entry's tag set
\* is the trimmed, non-empty, deduplicated input tags.
C5_UploadListRoundTrip ==
  \A r \in Reqs :
    (ListAnswered(r) /\ last.op = "upload" /\ last.ok)
      => LET items == Answer(r).body.items
             hits == {i \in 1..Len(items) : items[i].path = last.path[1]}
         IN /\ Cardinality(hits) = 1
            /\ \A i \in hits : Range(items[i].tag) = InputTagSet(last.tags)

\* C6 (Spec): an Upload whose path already holds a blob fails at the store
\* call with the store's error, leaves blobs and rows as they are and makes
\* no insert.
C6_UploadNeverOverwrites ==
  [][\A r \in Reqs :
       (Leaves(r, "upload", "store") /\ req[r].loc.path \in DOMAIN blobs)
       => /\ req'[r].pc = "done"
          /\ \E o \in StorageUpload(blobs, req[r].loc.path, req[r].loc.file, now) :
               o.error # None /\ req'[r].resp = Some(Fail(500, o.error[1]))
          /\ "insert" \notin Range(req'[r].calls)
          /\ blobs' = blobs
          /\ rows' = rows]_vars

\* an Upload of other bytes was refused and the stored bytes are the old ones
C6_Witness ==
  \E r \in Reqs :
    /\ Finished(r, "upload")
    /\ req[r].resp = Some(Fail(500, AlreadyExists))
    /\ req[r].loc.path \in DOMAIN blobs
    /\ blobs[req[r].loc.path].file # req[r].loc.file

\* C7 (Spec): a successful List has one entry per blob of the storage
\* listing, in the listing's order, with path uploads/<name>; rows of other
\* paths and further rows of a listed path add no entry.
C7_ListBlobDriven ==
  \A r \in Reqs :
    ListAnswered(r)
      => LET items == Answer(r).body.items
             data == req[r].loc.data
         IN /\ Len(items) = Len(data)
            /\ \A i \in 1..Len(data) : items[i].path = UploadsPath(data[i].name)

\* a List that found two rows for its only blob
C7_Witness ==
  \E r \in Reqs :
    /\ ListAnswered(r)
    /\ Len(Answer(r).body.items) = 1
    /\ Len(req[r].loc.documents) = 2

\* C8 (Spec): the entry of a blob with a row shows that row's document_name,
\* normalized tag and summary; the entry of a blob with no row shows the
\* blob's filename, no tags, and null summary and summary_updated_at.
C8_ListOverlay ==
  \A r \in Reqs :
    ListAnswered(r)
      => LET items == Answer(r).body.items
             data == req[r].loc.data
             docs == Range(req[r].loc.documents)
         IN \A i \in 1..Len(items) :
              LET ds == RowsAt(docs, UploadsPath(data[i].name))
              IN IF ds = {}
                 THEN /\ items[i].name = data[i].name
                      /\ items[i].tag = <<>>
                      /\ items[i].summary = None
                      /\ items[i].summary_updated_at = None
                 ELSE \E d \in ds :
                        /\ items[i].name = d.document_name
                        /\ items[i].tag = normalizeTagValue(TagColumnValue(d.tag))
                        /\ items[i].summary = d.summary_text
                        /\ items[i].summary_updated_at = d.summary_updated_at

\* a List showing a summarized document with tags
C8_Witness ==
  \E r \in Reqs :
    /\ ListAnswered(r)
    /\ \E i \in 1..Len(Answer(r).body.items) :
         /\ Answer(r).body.items[i].summary # None
         /\ Answer(r).body.items[i].tag # <<>>

EmptyTextAnswer == Fail(422, "No text could be extracted from the PDF.")

\* C9 (Spec): when the downloaded blob has no text after collapsing
\* whitespace and trimming, Summarize stops at that step, and when the text
\* was extracted its answer is 422 {ok:false}, with no AI call and no
\* metadata update or insert; 422 is answered in no other case.
C9_EmptyExtraction ==
  [][\A r \in Reqs :
       Leaves(r, "summarize", "download")
       => LET p == req[r].loc.path
              blank == p \in DOMAIN blobs /\ trim(CollapseSpaces(blobs[p].file.text)) = <<>>
          IN /\ blank => /\ req'[r].pc = "done"
                         /\ req'[r].resp[1] \in
                              {EmptyTextAnswer, Fail(500, "Failed to download PDF."), Thrown}
             /\ (req'[r].pc = "done" /\ req'[r].resp[1].status = 422)
                  => /\ blank
                     /\ req'[r].resp[1] = EmptyTextAnswer
                     /\ req'[r].calls = <<"createSignedUrl", "fetch">>
                     /\ rows' = rows]_vars

\* a Summarize answered 422 for a stored blob with blank text
C9_Witness ==
  \E r \in Reqs :
    /\ Finished(r, "summarize")
    /\ req[r].resp = Some(EmptyTextAnswer)
    /\ req[r].loc.path \in DOMAIN blobs

Translated(r) ==
  /\ Finished(r, "translate")
  /\ "content" \in DOMAIN req[r].loc
  /\ req[r].loc.content # None

\* C11 (Spec): when the completion Translate received does not parse as JSON,
\* or parses to a value with no keys, the answer is {ok:false} with status
\* 500 and its body has no translations field.
C11_TranslateFailsWhole ==
  \A r \in Reqs :
    (Translated(r)
       /\ (JsonParse(req[r].loc.content[1]) = None
             \/ JsonParse(req[r].loc.content[1])[1].keys = 0))
    => /\ Answer(r).json
       /\ Answer(r).status = 500
       /\ Answer(r).body.ok = FALSE
       /\ "translations" \notin DOMAIN Answer(r).body

\* a completion holding one translation but cut before the closing brace
C11_Witness ==
  \E r \in Reqs :
    /\ Translated(r)
    /\ req[r].loc.content = Some(JsonCut)
    /\ Answer(r) = Fail(500, "Translation output was not valid JSON.")

SetXY == {<<"x">>, <<"y">>}

\* C12 (SpecPure): the tags Upload stores for the form field "x, y" and for
\* the form field '["x","y"]', and the tags Edit stores for the list
\* ["x","y"], are the set {"x","y"}; more generally the tags Upload stores
\* for a form field holding a JSON array are the strings of the array.
C12_TagParsingEquivalence ==
  /\ (Applied("parseTags") /\ probe.in.tags \in {Some(TagsXY), Some(TagsJsonXY)})
       => Range(Result) = SetXY
  /\ (Applied("parseTags") /\ probe.in.tags # None)
       => LET t == trim(probe.in.tags[1])
          IN (startsWith(t, <<"[">>) /\ endsWith(t, <<"]">>) /\ JsonParseArray(t) # None)
               => Range(Result) = Range(NormalizeJsonArray(JsonParseArray(t)[1]))
  /\ (Applied("normalizeTagValue") /\ "list" \in DOMAIN probe.in
        /\ probe.in.list = <<ItemX, ItemY>>)
       => Range(Result) = SetXY
  /\ (Applied("normalizeTagValue") /\ "text" \in DOMAIN probe.in
        /\ probe.in.text \in {TagsXY, TagsJsonXY})
       => Range(Result) = SetXY

\* a list of tags that is a set of trimmed, non-empty strings
IsTagSet(tags) ==
  /\ \A i, j \in 1..Len(tags) : i # j => tags[i] # tags[j]
  /\ \A i \in 1..Len(tags) : tags[i] # <<>> /\ trim(tags[i]) = tags[i]

\* C13 (Spec): in every reachable state the tag list of every row that has
\* one (rows written by Upload or Edit) has no duplicate, no empty and no
\* whitespace-padded entry.
C13_StoredTagsAreASet ==
  \A d \in rows : d.tag # None => IsTagSet(d.tag[1])

\* C14 (SpecPure): normalizePdfName applied to its own result returns that
\* result; the result has only characters of [a-zA-Z0-9._-] and ends in .pdf
\* compared without case; "My File" gives "My_File.pdf" and a blank name gives
\* "document.pdf".
C14_NormalizeIdempotent ==
  Applied("normalizePdfName")
    => /\ Range(Result) \subseteq SafeChars
       /\ endsWith(toLowerCase(Result), Str_pdf)
       /\ Len(probe.outs) = 2 => probe.outs[2] = Result
       /\ probe.in.name = Str_MyFile
            => Result = <<"M", "y", "_", "F", "i", "l", "e", ".", "p", "d", "f">>
       /\ (\A i \in 1..Len(probe.in.name) : IsSpace(probe.in.name[i]))
            => Result = Str_document_pdf

\* a name with a leading space, an inner space and an upper-case letter,
\* normalized twice
C14_Witness ==
  /\ probe.fn = "normalizePdfName"
  /\ probe.in.name = <<" ", "d", " ", "D">>
  /\ Len(probe.outs) = 2
  /\ probe.outs[2] = <<"d", "_", "D", ".", "p", "d", "f">>

\* C15 (Spec): the removal step of Delete comes first and leaves the rows as
\* they are; it either removes the blob and goes on to the metadata delete,
\* or answers 500 {ok:false} with the blob store unchanged and no metadata
\* delete attempted.  The metadata delete step, made after the removal only,
\* leaves the blob store as it is; when it fails the answer is 500
\* {ok:false} and the rows are unchanged.
C15_DeletePartialFailure ==
  [][\A r \in Reqs :
       /\ Leaves(r, "delete", "remove")
            => /\ req[r].calls = <<>>
               /\ rows' = rows
               /\ req'[r].pc \in {"rows", "done"}
               /\ req'[r].pc = "rows" => req[r].loc.path \notin DOMAIN blobs'
               /\ req'[r].pc = "done"
                    => /\ req'[r].resp[1].status = 500
                       /\ req'[r].resp[1].body.ok = FALSE
                       /\ req'[r].calls = <<"remove">>
                       /\ blobs' = blobs
       /\ Leaves(r, "delete", "rows")
            => /\ req[r].calls = <<"remove">>
               /\ req'[r].pc = "done"
               /\ blobs' = blobs
               /\ IsOk(req'[r].resp) => RowsAt(rows', req[r].loc.path) = {}
               /\ ~IsOk(req'[r].resp)
                    => /\ req'[r].resp[1].status = 500
                       /\ req'[r].resp[1].body.ok = FALSE
                       /\ rows' = rows]_vars

\* a Delete that failed at the metadata delete: the blob is gone, the row is
\* still there
C15_Witness ==
  \E r \in Reqs :
    /\ Finished(r, "delete")
    /\ req[r].resp = Some(Fail(500, DatabaseError))
    /\ req[r].calls = <<"remove", "delete">>
    /\ req[r].loc.path \notin DOMAIN blobs
    /\ RowsAt(rows, req[r].loc.path) # {}

\* the Upload delivered last failed at its metadata insert
InsertFailedLast == last.op = "upload" /\ ~last.ok /\ last.path # None

\* C16 (SpecOrphanRow): an Upload that stored its blob and failed at the
\* insert answers 500 {ok:false} and its blob is still stored; the List
\* issued next has one entry for that path, showing the blob's filename, no
\* tags and a null summary.
C16_UploadPartialFailure ==
  \A r \in Reqs :
    /\ (Finished(r, "upload") /\ req[r].calls = <<"upload", "insert">> /\ ~IsOk(req[r].resp))
         => /\ Answer(r).status = 500
            /\ Answer(r).body.ok = FALSE
            /\ req[r].loc.path \in DOMAIN blobs
            /\ blobs[req[r].loc.path].file = req[r].loc.file
    /\ (ListAnswered(r) /\ InsertFailedLast)
         => LET items == Answer(r).body.items
                hits == {i \in 1..Len(items) : items[i].path = last.path[1]}
            IN /\ Cardinality(hits) = 1
               /\ \A i \in hits :
                    /\ UploadsPath(items[i].name) = last.path[1]
                    /\ items[i].tag = <<>>
                    /\ items[i].summary = None

\* a PATCH request as saveNote sends it: a path and a note, no documentName
NoteRequest(r) ==
  /\ Finished(r, "patch")
  /\ req[r].input.valid
  /\ req[r].input.path # None
  /\ req[r].input.documentName = None
  /\ req[r].input.note_taking # None

\* C17 (SpecSeq): a PATCH carrying a path and note_taking but no documentName
\* answers {ok:true}, and the rows with that path then hold the note.
C17_NoteUpdate ==
  \A r \in Reqs :
    NoteRequest(r)
      => /\ IsOk(req[r].resp)
         /\ \A d \in RowsAt(rows, req[r].input.path[1]) :
              d.note_taking = req[r].input.note_taking

Ids(rs) == {d.id : d \in rs}
RowOf(rs, id) == CHOOSE d \in rs : d.id = id

\* C18 (Spec): a PATCH with a path and a non-blank documentName reaches its
\* update, and that update adds and removes no row and leaves the blobs as
\* they are; a row of another path is unchanged; a row of the path keeps its
\* id, path, summary_text, summary_updated_at and note, and on success has
\* the trimmed documentName; with no row for the path the answer is
\* {ok:true} (unless the store fails) and the table is unchanged.
C18_EditIsUpdateOnly ==
  [][\A r \in Reqs :
       /\ (req[r].op = "idle" /\ req'[r].op = "patch" /\ req'[r].input.valid
             /\ req'[r].input.path \notin {None, Some(<<>>)}
             /\ req'[r].input.documentName # None
             /\ \E i \in 1..Len(req'[r].input.documentName[1]) :
                  ~IsSpace(req'[r].input.documentName[1][i]))
            => req'[r].pc = "update" /\ rows' = rows
       /\ Leaves(r, "patch", "update")
            => LET p == req[r].loc.path
               IN /\ blobs' = blobs
                  /\ req'[r].pc = "done"
                  /\ Ids(rows') = Ids(rows)
                  /\ Cardinality(rows') = Cardinality(rows)
                  /\ \A d \in rows :
                       LET e == RowOf(rows', d.id)
                       IN /\ d.storage_path # p => e = d
                          /\ e.storage_path = d.storage_path
                          /\ e.summary_text = d.summary_text
                          /\ e.summary_updated_at = d.summary_updated_at
                          /\ e.note_taking = d.note_taking
                          /\ (IsOk(req'[r].resp) /\ d.storage_path = p)
                               => e.document_name = trim(req[r].input.documentName[1])
                          /\ ~IsOk(req'[r].resp) => e = d
                  /\ RowsAt(rows, p) = {}
                       => /\ rows' = rows
                          /\ req'[r].resp[1] \in {Json(200, [ok |-> TRUE]),
                                                  Fail(500, DatabaseError)}]_vars

\* an Edit of a path without a row answered ok while another document has
\* its row
C18_Witness ==
  \E r \in Reqs :
    /\ Finished(r, "patch") /\ IsOk(req[r].resp)
    /\ req[r].calls = <<"update">>
    /\ RowsAt(rows, req[r].loc.path) = {}
    /\ rows # {}

ReadOnlyOps == {"get", "summarize", "patch", "translate"}
Others(bs, path) == [p \in DOMAIN bs \ {path} |-> bs[p]]

\* C19 (Spec): every step of List, of the link request, of Summarize, of
\* Edit and of Translate leaves the blob store as it is; a step that changes
\* it is the store step of an Upload, adding the one blob of its path with the
\* uploaded bytes, or the removal step of a Delete, removing the one blob of
\* its path; the other blobs keep their contents.
C19_BlobsChangedByUploadAndDelete ==
  [][/\ \A r \in Reqs :
          (req'[r] # req[r] /\ (req[r].op \in ReadOnlyOps \/ req'[r].op \in ReadOnlyOps))
            => blobs' = blobs
     /\ blobs' # blobs
          => \E r \in Reqs :
               LET p == req[r].loc.path
               IN \/ /\ Leaves(r, "upload", "store")
                     /\ p \notin DOMAIN blobs
                     /\ DOMAIN blobs' = DOMAIN blobs \cup {p}
                     /\ blobs'[p].file = req[r].loc.file
                     /\ Others(blobs', p) = blobs
                  \/ /\ Leaves(r, "delete", "remove")
                     /\ p \in DOMAIN blobs
                     /\ blobs' = Others(blobs, p)]_vars

\* a document was summarized next to another one, and both blobs are stored
\* with the bytes that were uploaded
C19_Witness ==
  /\ Cardinality(DOMAIN blobs) = 2
  /\ \E d \in rows : d.summary_text # None /\ d.storage_path \in DOMAIN blobs
  /\ \A p \in DOMAIN blobs : blobs[p].file \in {FileA, FileBlank}

Blank(str) == \A i \in 1..Len(str) : IsSpace(str[i])
NoStringItem(items) == \A i \in 1..Len(items) : ~items[i].str

\* the request lacks what the operation requires
Malformed(op, input) ==
  CASE op = "upload" -> input.file = None
    [] op \in {"delete", "summarize"} -> input.valid /\ input.path = None
    [] op = "patch" ->
         /\ input.valid
         /\ (input.path = None \/ input.documentName = None \/ Blank(input.documentName[1]))
    [] op = "translate" ->
         /\ input.valid
         /\ \/ input.text \in {None, Some(<<>>)}
            \/ /\ input.targetLanguage = None
               /\ (input.targetLanguages = None \/ NoStringItem(input.targetLanguages[1]))
    [] OTHER -> FALSE

\* C20 (Spec): with the service token and the storage credentials
\* configured, a request that lacks what its operation requires is answered
\* at once with status 400 and {ok:false}; no store call and no AI call is
\* made and both stores are unchanged.
C20_ValidationFailures ==
  [][\A r \in Reqs :
       (req[r].op = "idle" /\ req'[r].op # "idle" /\ env.token /\ env.supabase
          /\ Malformed(req'[r].op, req'[r].input))
       => /\ req'[r].pc = "done"
          /\ req'[r].resp[1].json
          /\ req'[r].resp[1].status = 400
          /\ req'[r].resp[1].body.ok = FALSE
          /\ req'[r].calls = <<>>
          /\ blobs' = blobs
          /\ rows' = rows]_vars

\* an Edit with a blank documentName was refused and the row kept its name
C20_Witness ==
  \E r \in Reqs :
    /\ Finished(r, "patch")
    /\ req[r].input.valid /\ req[r].input.path = Some(PathA)
    /\ req[r].input.documentName = Some(<<" ">>)
    /\ req[r].resp = Some(Fail(400, "Missing document name."))
    /\ \E d \in RowsAt(rows, PathA) : d.document_name = <<"a">> \o Str_pdf

\* request r arrives: its handler runs up to its first await or its answer
Arrives(r, ops) == req[r].op = "idle" /\ req'[r].op \in ops

\* C21 (SpecEnv): without GITHUB_TOKEN, a Summarize or Translate request is
\* answered on arrival with status 500 and {ok:false}, whatever its body is
\* (a body that is not JSON included: the body is not read); no store call and
\* no AI call is made and both stores are unchanged.
C21_MissingTokenShortCircuits ==
  [][\A r \in Reqs :
       (Arrives(r, {"summarize", "translate"}) /\ ~env.token)
       => /\ req'[r].pc = "done"
          /\ req'[r].resp = Some(Fail(500, "Missing GITHUB_TOKEN."))
          /\ req'[r].calls = <<>>
          /\ blobs' = blobs
          /\ rows' = rows]_vars

\* without the token, a Summarize whose body is not JSON got the JSON answer
C21_Witness ==
  \E r \in Reqs :
    /\ Finished(r, "summarize")
    /\ ~env.token
    /\ ~req[r].input.valid
    /\ req[r].resp = Some(Fail(500, "Missing GITHUB_TOKEN."))

\* C22 (SpecEnv): every request that has failed is answered with a JSON body
\* {ok:false, error} and a status of 400, 422 or 500.
C22_UniformErrorShape ==
  \A r \in Reqs :
    (req[r].pc = "done" /\ ~IsOk(req[r].resp))
      => /\ Answer(r).json
         /\ Answer(r).body.ok = FALSE
         /\ "error" \in DOMAIN Answer(r).body
         /\ Answer(r).status \in {400, 422, 500}

\* C23 (Spec): in every reachable state each row has summary_updated_at null
\* exactly when its summary_text is null.
C23_SummaryColumnsTogether ==
  \A d \in rows : (d.summary_updated_at = None) <=> (d.summary_text = None)

\* a row inserted by Upload, summarized, then renamed by Edit
C23_Witness ==
  \E d \in rows :
    /\ d.tag # None
    /\ d.summary_text # None /\ d.summary_updated_at # None
    /\ d.document_name = <<"n">>

\* C24 (Spec): whenever no request is in flight, the storage_path of every
\* row is the key of a stored blob.
C24_RowsHaveBlobs ==
  InFlight = {} => \A d \in rows : d.storage_path \in DOMAIN blobs

\* both racing Summarize requests have succeeded: r is the one that finished
\* last, and no other request has been sent since they started
BothSummarized(r) ==
  /\ Finished(r, "summarize") /\ IsOk(req[r].resp)
  /\ last.op = "summarize" /\ last.ok
  /\ started = MaxRequests - 1

\* C25 (SpecRace): when two overlapping Summarize requests of one path that
\* has a row have both succeeded, the row holds the summary of the request
\* whose update ran last, whichever of the two was sent first.
C25_LastWriteWins ==
  \A r \in Reqs :
    BothSummarized(r)
      => /\ RowsAt(rows, req[r].loc.path) # {}
         /\ \A d \in RowsAt(rows, req[r].loc.path) :
              /\ d.summary_text = Some(req[r].loc.summary)
              /\ d.summary_text = Some(Answer(r).body.summary)
              /\ d.summary_updated_at = Some(req[r].loc.summaryTimestamp)

\* the request sent first updated last: the row holds its summary "s", not
\* the "t" the second request had written
C25_Witness ==
  /\ BothSummarized(1)
  /\ req[1].calls = <<"createSignedUrl", "fetch", "ai", "update">>
  /\ \A d \in RowsAt(rows, PathA) : d.summary_text = Some(<<"s">>)

\* the entries of a List answer that have the path
Entries(items, path) == {items[i] : i \in {k \in 1..Len(items) : items[k].path = path}}

\* the k-th request of the scenario is a List that has answered, and the
\* request before it succeeded
ScenarioList(r, k) == ListAnswered(r) /\ started = k /\ last.ok

\* C26 (SpecScenario): in the scenario where each request succeeds, the List
\* after the Upload of report.pdf with tags "finance,q3" has one entry for
\* uploads/report.pdf with name "report.pdf", tags ["finance","q3"] and a null
\* summary; the List after the Summarize has one with a summary and a
\* summary_updated_at not before the upload time; the List after the Delete
\* has none.
C26_UploadSummarizeDelete ==
  \A r \in Reqs :
    LET items == Answer(r).body.items
    IN /\ ScenarioList(r, 2)
            => /\ Cardinality(Entries(items, ReportPath)) = 1
               /\ \A e \in Entries(items, ReportPath) :
                    /\ e.name = ReportPdf
                    /\ e.tag = <<<<"f", "i", "n", "a", "n", "c", "e">>, <<"q", "3">>>>
                    /\ e.summary = None
       /\ ScenarioList(r, 4)
            => /\ Cardinality(Entries(items, ReportPath)) = 1
               /\ \A e \in Entries(items, ReportPath) :
                    /\ e.summary # None
                    /\ e.summary_updated_at # None
                    /\ e.summary_updated_at[1] >= e.created_at
       /\ ScenarioList(r, 6) => Entries(items, ReportPath) = {}
       /\ req[r].op = "summarize" => req[r].pc # "insert"

\* the List after the Delete has answered; each of the five requests before
\* it succeeded, or the next one would not have been sent
C26_Witness ==
  \E r \in Reqs :
    /\ ScenarioList(r, 6)
    /\ last.op = "delete"
    /\ blobs = <<>> /\ rows = {} /\ nextId = 2

\* no external call appears twice in the list
NoRepeat(calls) == \A i, j \in 1..Len(calls) : i # j => calls[i] # calls[j]

C28_SelectionResetsTransientState ==
  [][ui.selectedPath' # ui.selectedPath
       => /\ ui.summaryText' = None
          /\ ui.previewUrl' = None
          /\ ui.previewError' = None
          /\ ui.previewExpiresAt' = None]_vars

\* the timeout of the effect clears the preview: the link goes while no
\* handler starts or resumes
TimeoutClears ==
  /\ ui.previewUrl # None
  /\ ui.previewUrl' = None
  /\ ui.awaiting' = ui.awaiting

\* the page shows that the link has expired, or a new selection is loading
ExpiredOrReselected ==
  /\ ui.previewUrl = None
  /\ ui.previewError = Some(PreviewExpired) \/ ui.isPreviewLoading

\* C29 (SpecClientLive): the timeout clears a preview link only when the
\* fifteen minutes since that link was obtained have passed, and it sets the
\* preview-expired error, so a countdown of an earlier selection never clears
\* the link of a later one; and a link that the page holds is eventually
\* cleared with the error set, unless a document is selected again first.
C29_PreviewCountdown ==
  /\ [][TimeoutClears
         => /\ DateNow >= ui.previewUrl[1].issued * TickMs + PreviewKeepMs
            /\ ui.previewError' = Some(PreviewExpired)]_vars
  /\ (ui.previewUrl # None) ~> ExpiredOrReselected

\* after two clicks the link obtained one tick after the first render has
\* been cleared by its countdown
C29_Witness ==
  /\ started = MaxClicks
  /\ ui.previewUrl = None
  /\ ui.previewError = Some(PreviewExpired)
  /\ ui.previewExpiresAt = Some(TickMs + PreviewKeepMs)
  /\ ui.clock = LastTick

\* the storage no longer serves the link the page holds
GrantExpired ==
  DateNow >= ui.previewUrl[1].issued * TickMs + ui.previewUrl[1].url.ttl * 1000

\* C30 (SpecClient): every link the server issues, the one GET answers with
\* and the one Summarize downloads from, has a TTL of 60 seconds, and the
\* page keeps the link it received for 15 minutes from its arrival.
C30_ServerTtlClientKeep ==
  /\ \A r \in Reqs :
       /\ (req[r].op = "summarize" /\ req[r].pc = "download")
            => req[r].loc.signed.ttl = SignedUrlTtl
       /\ (Finished(r, "get") /\ IsOk(req[r].resp) /\ "url" \in DOMAIN Answer(r).body)
            => Answer(r).body.url.ttl = SignedUrlTtl
  /\ ui.previewUrl # None
       => /\ ui.previewUrl[1].url.ttl = SignedUrlTtl
          /\ ui.previewExpiresAt
               = Some(ui.previewUrl[1].issued * TickMs + PreviewKeepMs)

\* the page shows a link, with no error and its countdown still running,
\* that the storage has stopped serving
C30_Witness ==
  /\ ui.previewUrl # None
  /\ ui.previewError = None
  /\ ~ui.isPreviewLoading
  /\ GrantExpired
  /\ DateNow < ui.previewExpiresAt[1]

\* the tag value of the body is missing, or neither a string nor a list
TagOmitted(body) == body.tag.kind = "other"

\* C37 (SpecSeq): when the update of a PATCH succeeds, every row of the path
\* holds as its tags the normalization of the tag value of the request,
\* whatever it held before; with the tag value omitted, or neither a string
\* nor a list, that is the empty list.
C37_PatchOverwritesTags ==
  [][\A r \in Reqs :
       (Leaves(r, "patch", "update") /\ IsOk(req'[r].resp))
         => \A d \in RowsAt(rows', req[r].loc.path) :
              /\ d.tag = Some(normalizeTagValue(req[r].input.tag))
              /\ TagOmitted(req[r].input) => d.tag = Some(<<>>)]_vars

\* an Edit without a tag value has succeeded on a document uploaded with
\* tags, and its row holds no tag
C37_Witness ==
  \E r \in Reqs :
    /\ Finished(r, "patch") /\ IsOk(req[r].resp)
    /\ TagOmitted(req[r].input)
    /\ \E d \in RowsAt(rows, req[r].loc.path) : d.tag = Some(<<>>)
    /\ last.op = "upload" /\ last.ok
    /\ last.tags # None /\ parseTags(last.tags) # <<>>
    /\ last.path = Some(req[r].loc.path)

\* C38 (SpecRace): a metadata write never replaces the summary_updated_at
\* of a row by an earlier instant, also when two Summarize requests of the
\* path overlap.
C38_SummaryTimeNeverDecreases ==
  [][\A d \in rows : \A e \in rows' :
       (e.id = d.id /\ d.summary_updated_at # None /\ e.summary_updated_at # None)
         => e.summary_updated_at[1] >= d.summary_updated_at[1]]_vars

\* C39 (SpecStaleSummary): the List issued right after an Upload that
\* answered {ok, path} shows that path, with summary null and
\* summary_updated_at null.
C39_UploadedShowsNoSummary ==
  \A r \in Reqs :
    (ListAnswered(r) /\ last.op = "upload" /\ last.ok)
      => LET items == Answer(r).body.items
             hits == {i \in 1..Len(items) : items[i].path = last.path[1]}
         IN /\ hits # {}
            /\ \A i \in hits : /\ items[i].summary = None
                               /\ items[i].summary_updated_at = None

\* an Upload of uploads/a.pdf has answered {ok:true}
UploadedA ==
  \E r \in Reqs : Finished(r, "upload") /\ IsOk(req[r].resp) /\ req[r].loc.path = PathA

\* a Delete of uploads/a.pdf has answered {ok:true}
DeletedA ==
  \E r \in Reqs : Finished(r, "delete") /\ IsOk(req[r].resp) /\ req[r].loc.path = PathA

\* a Delete of uploads/a.pdf has removed the blob
RemovedA ==
  \E r \in Reqs :
    /\ req[r].op = "delete"
    /\ req[r].pc = "rows" \/ (req[r].pc = "done" /\ Len(req[r].calls) = 2)
    /\ req[r].loc.path = PathA

\* C40 as stated (SpecPendingUpload): after an Upload of uploads/a.pdf that
\* failed at the insert, no Upload of that path answers {ok:true} unless a
\* Delete of the path answers {ok:true}.
C40_CollisionUntilDeleteSucceeds == <>DeletedA \/ []~UploadedA

\* C40 (SpecPendingUpload): after an Upload of uploads/a.pdf that failed at
\* the insert, the blob of the path stays until the removal step of a Delete
\* of that path, whether or not the Delete then answers {ok:true}; while it
\* stays, an Upload of the path fails at the store with the name-collision
\* error (or the store's failure) and writes no row, so no Upload of the path
\* answers {ok:true} unless a Delete has removed the blob.
C40_CollisionUntilBlobRemoved ==
  /\ [][(PathA \in DOMAIN blobs /\ PathA \notin DOMAIN blobs')
          => \E r \in Reqs : Leaves(r, "delete", "remove") /\ req[r].loc.path = PathA]_vars
  /\ [][\A r \in Reqs :
          (Leaves(r, "upload", "store") /\ req[r].loc.path = PathA /\ PathA \in DOMAIN blobs)
            => /\ req'[r].resp \in {Some(Fail(500, AlreadyExists)),
                                    Some(Fail(500, StorageUnavailable))}
               /\ blobs' = blobs
               /\ rows' = rows]_vars
  /\ <>RemovedA \/ []~UploadedA

\* the retry right after the failed Upload was refused for the name, and the
\* path has its blob and no row
C40_Witness ==
  \E r \in Reqs :
    /\ Finished(r, "upload")
    /\ req[r].resp = Some(Fail(500, AlreadyExists))
    /\ req[r].loc.path = PathA
    /\ InsertFailedLast
    /\ PathA \in DOMAIN blobs
    /\ RowsAt(rows, PathA) = {}

\* the card of the path shows "Summarizing..." and its button is disabled
CardSummarizing(path) == ui.isSummarizing /\ ui.summaryTarget = Some(path)

\* handleSummarize for the path has sent its request and has not returned
\* (it awaits the summary or the list it fetches after it)
SummarizeInFlight(path) ==
  \E r \in Reqs :
    /\ ui.awaiting[r] # None
    /\ ui.awaiting[r][1].kind \in {"summarize", "files"}
    /\ ui.awaiting[r][1].path = path

\* C33 (SpecClient): a card shows as summarizing exactly while a summarize
\* action for its path is in flight.
C33_CardSummarizingIffInFlight ==
  \A path \in Paths : CardSummarizing(path) <=> SummarizeInFlight(path)

\* C34 (SpecClient): a preview link the page holds was issued for the
\* selected path.
C34_PreviewOfSelected ==
  ui.previewUrl # None => ui.selectedPath = Some(ui.previewUrl[1].url.path)

\* the summary that the request on r returned is stored as the local
\* summary text (the handler goes on to fetch the list)
SummaryStored(r) ==
  /\ ui.awaiting[r] # None
  /\ ui.awaiting[r][1].kind = "summarize"
  /\ ui.awaiting'[r] # None
  /\ ui.awaiting'[r][1].kind = "files"

\* C35 (SpecClient): the local summary text is the summary returned for the
\* selected path: a step that stores a returned summary stores the one of a
\* request for the path selected then, and a step that changes the selection
\* leaves no local summary text.
C35_SummaryOfSelected ==
  [][/\ \A r \in Reqs :
          SummaryStored(r)
            => /\ ui.summaryText' = Some(req[r].resp[1].body.summary)
               /\ ui.selectedPath' = Some(ui.awaiting[r][1].path)
     /\ ui.selectedPath' # ui.selectedPath => ui.summaryText' = None]_vars

\* ------------------------------------------------- the library of the page

\* the handler waiting on r resumes in this step
ResumesOn(r, stage) ==
  /\ ui.awaiting[r] # None
  /\ ui.awaiting[r][1].stage = stage
  /\ ui.awaiting[r][1].resp # None
  /\ ui'.awaiting[r] # ui.awaiting[r]

\* C31: a successful upload, delete, summarize or edit sends the list
\* request and keeps the snapshot meanwhile; a failed one sends nothing,
\* keeps the snapshot and shows its error; a successful list response
\* replaces the whole snapshot with the returned items; a failed one keeps it
C31_RefetchReplacesSnapshot ==
  [][\A r \in Reqs :
       LET w == ui.awaiting[r][1]
       IN /\ ResumesOn(r, "action") /\ w.kind # "translate" /\ IsOk(w.resp) =>
               /\ ui'.files = ui.files
               /\ req'[r] = ListRequest
               /\ ui'.awaiting[r] # None
               /\ ui'.awaiting[r][1].kind = w.kind
               /\ ui'.awaiting[r][1].stage = "files"
          /\ ResumesOn(r, "action") /\ w.kind # "translate" /\ ~IsOk(w.resp) =>
               /\ ui'.files = ui.files
               /\ req'[r] = req[r]
               /\ ui'.awaiting[r] = None
               /\ ui'.status \in {ErrorMessage(w.resp, fallback) :
                                    fallback \in {"Upload failed.", "Delete failed.",
                                                  "Summary failed.", "Update failed."}}
          /\ ResumesOn(r, "files") /\ IsOk(w.resp) =>
               ui'.files = w.resp[1].body.items
          /\ ResumesOn(r, "files") /\ ~IsOk(w.resp) =>
               /\ ui'.files = ui.files
               /\ w.kind = "mount" => ui'.status = ErrorMessage(w.resp, "Failed to load files.")
     ]_vars

\* a delete has succeeded and its refetch has emptied the snapshot
C31_Witness ==
  /\ ui.status = "File removed."
  /\ ui.shown > 1
  /\ ui.files = <<>>
  /\ ui.newest.seq = ui.shown


\* C32: a list response is stored even when the response to a later list
\* request is already shown, so the snapshot can end as the older server
\* state with nothing left in flight
C32_StaleOverwrite ==
  [][\A r \in Reqs :
       LET w == ui.awaiting[r][1]
       IN ResumesOn(r, "files") /\ IsOk(w.resp) /\ w.seq < ui.shown =>
            /\ ui'.files = w.resp[1].body.items
            /\ ui'.shown = w.seq
            /\ ui'.newest = ui.newest
     ]_vars

\* nothing is in flight and the snapshot is the answer to the earlier of two
\* list requests: it still lists the document that the store has lost and
\* that the answer to the later request had dropped
C32_Witness ==
  /\ \A r \in Reqs : ui.awaiting[r] = None /\ req[r].op = "idle"
  /\ ui.shown < ui.newest.seq
  /\ LibraryPath \in ItemPaths(ui.files)
  /\ LibraryPath \notin ItemPaths(ui.newest.items)
  /\ LibraryPath \notin DOMAIN blobs


\* C36: a translation on the page is a translation of the summary that
\* the page displays
C36_TranslationOfDisplayed ==
  ui.translatedText # None => summaryDisplay(ui) = Some(ui.translatedText[1].of)


====
